---- MODULE Spec2Model ----
(***************************************************************************)
(* Cinema seat booking backend (src/app.js, lines 843-1294).               *)
(*                                                                         *)
(* The server holds ONE mysql2 connection `db` (app.js:861).  Every        *)
(* db.beginTransaction / db.query / db.commit / db.rollback call appends   *)
(* one command to that connection's FIFO command queue; the server runs    *)
(* the commands one at a time and, when a command returns, the callback    *)
(* given with it runs and may append the next command.  Requests therefore *)
(* interleave command by command on one MySQL session:                     *)
(*   - every statement sees the session's own uncommitted writes;          *)
(*   - START TRANSACTION implicitly commits the open transaction;          *)
(*   - ROLLBACK undoes every write since the last transaction boundary,    *)
(*     whichever request issued it;                                        *)
(*   - outside a transaction each statement is committed at once           *)
(*     (autocommit);                                                       *)
(*   - AUTO_INCREMENT values are never given back.                         *)
(* booking_date and the seats.id column are not modelled: no handler       *)
(* branches on them.                                                       *)
(***************************************************************************)
EXTENDS Integers, Sequences, FiniteSets, TLC

\* ---------------------------------------------------------------- bounds
MaxReqs == 2       \* requests per run of Spec (arbitrarily interleaved)
MaxSeqReqs == 3    \* requests per run of SeqSpec (one at a time)
MaxEdits == 2      \* requests per run of EditSpec
MaxAborts == 2     \* requests per run of AbortSpec
MaxSeeds == 2      \* starts and requests per run of SeedSpec
MaxLedgerReqs == 2 \* requests per run of LedgerSpec
MaxReleaseReqs == 3 \* requests per run of ReleaseSpec
MaxLiveReqs == 2    \* requests per run of LiveSpec
MaxPageReqs == 2    \* requests the page sends per run of PageSpec
MaxBookReqs == 2    \* requests the page sends per run of BookSpec

\* --------------------------------------------------------------- catalog
movies == {"Batman"}
showTimes == {"10:00 AM"}
seatRows == {"A", "C"}
seatCols == {1}

PremiumPrice == 200
RegularPrice == 150

\* A seat number that initializeSeats never creates.
UnknownSeat == "Z9"

Customers ==
  { [userName |-> "Ram", email |-> "ram@x.np", phone |-> "9800000000"] }

NewContacts ==
  { [userName |-> "Sita", email |-> "sita@x.np", phone |-> "9811111111"] }

\* ------------------------------------------------------------ seats table
SeatNumberOf(row, i) == row \o ToString(i)

SeatTypeOf(row) == IF row = "A" \/ row = "B" THEN "premium" ELSE "regular"

PriceOf(seatType) == IF seatType = "premium" THEN PremiumPrice ELSE RegularPrice

\* The catalog as initializeSeats has it; the request models above work on
\* the part of it named by movies, showTimes, seatRows and seatCols.
CatalogCols == 1..10

\* The INSERT INTO seats of one combination.
insertSeat(movie, showTime, row, i) ==
  [seat_number  |-> SeatNumberOf(row, i),
   movie_name   |-> movie,
   show_time    |-> showTime,
   is_available |-> TRUE,
   seat_type    |-> SeatTypeOf(row),
   price        |-> PriceOf(SeatTypeOf(row))]

\* initializeSeats over a catalog: rows are inserted only when
\* SELECT COUNT(*) is 0.
initializeSeatsOf(table, ms, ts, rows, cols) ==
  IF Cardinality(table) = 0
  THEN { insertSeat(movie, showTime, row, i) :
           movie \in ms, showTime \in ts, row \in rows, i \in cols }
  ELSE table

\* WHERE seat_number = ? AND movie_name = ? AND show_time = ?
SameTriple(row, seatNumber, movieName, showTime) ==
  /\ row.seat_number = seatNumber
  /\ row.movie_name = movieName
  /\ row.show_time = showTime

\* SELECT is_available FROM seats WHERE <triple>
checkSeat(table, seatNumber, movieName, showTime) ==
  { s \in table : SameTriple(s, seatNumber, movieName, showTime) }

\* The seat taken out of the table instead of flagged: DELETE FROM seats
\* WHERE <triple>.
updateSeat_Deletes(table, seatNumber, movieName, showTime, value) ==
  { s \in table : ~SameTriple(s, seatNumber, movieName, showTime) }

\* UPDATE seats SET is_available = value WHERE <triple>
updateSeat(table, seatNumber, movieName, showTime, value) ==
  { IF SameTriple(s, seatNumber, movieName, showTime)
    THEN [s EXCEPT !.is_available = value] ELSE s : s \in table }

\* --------------------------------------------------------- bookings table
\* The bookings table created without its unique key.
unique_seat_show_Dropped(table, seatNumber, movieName, showTime) == TRUE

\* UNIQUE KEY unique_seat_show (seat_number, show_time, movie_name): the key
\* does not contain status, so a cancelled row blocks the insert as well.
unique_seat_show(table, seatNumber, movieName, showTime) ==
  \A b \in table : ~SameTriple(b, seatNumber, movieName, showTime)

\* A counter that hands out the same value again.
AutoIncrement_Stuck(counter) == counter

\* id INT AUTO_INCREMENT: the counter after an INSERT took its value.
AutoIncrement(counter) == counter + 1

\* INSERT INTO bookings (...) VALUES (...); status defaults to 'confirmed'.
createBooking(table, id, body) ==
  table \cup { [id          |-> id,
                user_name   |-> body.userName,
                email       |-> body.email,
                phone       |-> body.phone,
                movie_name  |-> body.movieName,
                show_time   |-> body.showTime,
                seat_number |-> body.seatNumber,
                status      |-> "confirmed"] }

\* SELECT * FROM bookings WHERE id = ? AND status = "confirmed"
getConfirmedBooking(table, id) ==
  { b \in table : b.id = id /\ b.status = "confirmed" }

\* SELECT * FROM bookings WHERE id = ?
getBooking(table, id) == { b \in table : b.id = id }

\* UPDATE bookings SET status = "cancelled" WHERE id = ?
updateBooking(table, id) ==
  { IF b.id = id THEN [b EXCEPT !.status = "cancelled"] ELSE b : b \in table }

\* DELETE FROM bookings WHERE id = ?
deleteBooking(table, id) == { b \in table : b.id # id }

\* The UPDATE written with status = "confirmed" in its SET list.
updateContact_Reconfirms(table, id, c) ==
  { IF b.id = id
    THEN [b EXCEPT !.user_name = c.userName, !.email = c.email,
                   !.phone = c.phone, !.status = "confirmed"]
    ELSE b : b \in table }

\* UPDATE bookings SET user_name = ?, email = ?, phone = ? WHERE id = ?
updateContact(table, id, c) ==
  { IF b.id = id
    THEN [b EXCEPT !.user_name = c.userName, !.email = c.email,
                   !.phone = c.phone]
    ELSE b : b \in table }

\* ------------------------------------------------------------------ state
VARIABLES
  seats,      \* seats table as the connection's session sees it
  bookings,   \* bookings table as the connection's session sees it
  committed,  \* tables as of the last transaction boundary
  inTxn,      \* TRUE while a START TRANSACTION is open on the connection
  nextId,     \* AUTO_INCREMENT counter of bookings.id
  queue,      \* the connection's FIFO command queue
  reqs,       \* per request: parameters, callback position, response
  page        \* the booking page open in one browser: its globals and DOM

vars == <<seats, bookings, committed, inTxn, nextId, queue, reqs, page>>

Reqs == DOMAIN reqs

NoRes == [status |-> 0, error |-> "", bookingId |-> 0]
Ok(id) == [status |-> 200, error |-> "", bookingId |-> id]
Err(status, error) == [status |-> status, error |-> error, bookingId |-> 0]

NoSnapshot == [seats |-> {}, bookings |-> {}]

NoBody == [userName |-> "", email |-> "", phone |-> "", movieName |-> "",
           showTime |-> "", seatNumber |-> ""]

NoReq == [kind |-> "none", body |-> NoBody, id |-> 0, pc |-> "none",
          res |-> NoRes, insertId |-> 0, results |-> {},
          failedAt |-> "none", inserts |-> 0, dirty |-> {}, pre |-> NoSnapshot,
          sawIntermediate |-> FALSE, during |-> {}, aborted |-> "none"]

Arrived == { r \in Reqs : reqs[r].kind # "none" }
Answered(r) == reqs[r].res # NoRes
InFlight == { r \in Arrived : ~Answered(r) }

\* The connection's command for request r is at the head of the queue.
AtHead(r, kind, cmd) ==
  /\ queue # <<>>
  /\ Head(queue) = [req |-> r, cmd |-> cmd]
  /\ reqs[r].kind = kind

\* Outcomes the storage layer may give any command: TRUE = ok, FALSE = err
\* (the command then has no effect and its callback gets the error).
Outcomes == {TRUE, FALSE}

Snapshot(s, b) == [seats |-> s, bookings |-> b]

\* The store after db.connect -> createTables -> initializeSeats on an empty
\* database: every seat of the catalog, available, and no booking.
FreshStore ==
  [seats |-> initializeSeatsOf({}, movies, showTimes, seatRows, seatCols),
   bookings |-> {}, nextId |-> 1]

\* The tables are created IF NOT EXISTS and seeded only when seats is empty,
\* so a start may also find what earlier runs left.  ReservedStore is what
\* one Reserve of seat A1, served alone, leaves behind (booking 1).
FirstBody ==
  CHOOSE b \in { [userName |-> c.userName, email |-> c.email,
                  phone |-> c.phone, movieName |-> m, showTime |-> t,
                  seatNumber |-> SeatNumberOf("A", 1)] :
                   c \in Customers, m \in movies, t \in showTimes } : TRUE

ReservedStore ==
  [seats    |-> updateSeat(FreshStore.seats, FirstBody.seatNumber,
                           FirstBody.movieName, FirstBody.showTime, FALSE),
   bookings |-> createBooking({}, 1, FirstBody),
   nextId   |-> 2]

\* What Reserve of seat A1 followed by Cancel of booking 1, each served
\* alone, leave behind: the row stays, cancelled, and the seat is available.
CancelledStore ==
  [seats    |-> FreshStore.seats,
   bookings |-> updateBooking(ReservedStore.bookings, 1),
   nextId   |-> 2]

\* let selectedSeat = null
null == "<null>"

\* The booking page before anything is loaded: its globals (selectedSeat,
\* currentMovie, currentShowTime), the options of the two selects, the
\* seats drawn in seatsContainer, the three fields of the booking form and
\* the fetches it awaits (the alerts it shows are left out); chosenMovie
\* and chosenShowTime remember what currentMovie and currentShowTime were
\* when selectSeat ran.
NoPage ==
  [selectedSeat |-> null, currentMovie |-> "", currentShowTime |-> "",
   movieOptions |-> {}, showTimeOptions |-> {}, showTimeValue |-> "",
   seatSelection |-> FALSE, seatsContainer |-> {},
   userName |-> <<>>, userEmail |-> <<>>, userPhone |-> <<>>,
   fetches |-> {}, outbox |-> {},
   currentBookingId |-> 0, bookingsContainer |-> {},
   chosenMovie |-> "", chosenShowTime |-> ""]

StartWith(store, n) ==
  /\ seats = store.seats
  /\ bookings = store.bookings
  /\ committed = Snapshot(store.seats, store.bookings)
  /\ inTxn = FALSE
  /\ nextId = store.nextId
  /\ queue = <<>>
  /\ reqs = [r \in 1..n |-> NoReq]
  /\ page = NoPage

Init ==
  \E store \in {FreshStore, ReservedStore} :
    StartWith(store, MaxReqs)

\* -------------------------------------------------- connection primitives
DbUnchanged == UNCHANGED <<seats, bookings, committed, inTxn, nextId>>

\* START TRANSACTION: commits whatever transaction is open, opens a new one.
beginTransaction ==
  /\ committed' = Snapshot(seats, bookings)
  /\ inTxn' = TRUE
  /\ UNCHANGED <<seats, bookings, nextId>>

\* COMMIT
commit ==
  /\ committed' = Snapshot(seats, bookings)
  /\ inTxn' = FALSE
  /\ UNCHANGED <<seats, bookings, nextId>>

\* ROLLBACK: back to the last transaction boundary (a no-op outside one).
rollback ==
  /\ seats' = committed.seats
  /\ bookings' = committed.bookings
  /\ inTxn' = FALSE
  /\ UNCHANGED <<committed, nextId>>

\* A statement that writes the tables to (s, b).  Autocommit: outside a
\* transaction the statement's writes are committed.
Write(s, b) ==
  /\ seats' = s
  /\ bookings' = b
  /\ committed' = IF inTxn THEN committed ELSE Snapshot(s, b)
  /\ UNCHANGED inTxn

\* The callback of r's command issues the next command of r.
\* (Continue_Drops: a callback that issues nothing.)
Continue_Drops(r, cmd) == queue' = Tail(queue) /\ UNCHANGED page

Continue(r, cmd) ==
  /\ queue' = Append(Tail(queue), [req |-> r, cmd |-> cmd])
  /\ UNCHANGED page

\* The callback of r's command issues nothing more.
Finish == queue' = Tail(queue) /\ UNCHANGED page

\* ---- bookkeeping for the claims: which statements read unfinished writes
Triple(row) == <<row.seat_number, row.movie_name, row.show_time>>

BodyTriple(body) == <<body.seatNumber, body.movieName, body.showTime>>

\* The triples the unit of request q works on.
UnitTriples(q) ==
  IF reqs[q].kind = "reserve" THEN {BodyTriple(reqs[q].body)}
  ELSE { Triple(b) : b \in reqs[q].results }

\* Requests other than r whose unit has written table tbl and has neither
\* committed nor been rolled back: reqs[q].dirty holds the tables written.
Unfinished(r, tbl) == { q \in Arrived \ {r} : tbl \in reqs[q].dirty }

SeesSeat(r, triples) ==
  \E q \in Unfinished(r, "seats") : UnitTriples(q) \cap triples # {}

SeesBookingOf(r, triples) ==
  \E q \in Unfinished(r, "bookings") : UnitTriples(q) \cap triples # {}

SeesBookingId(r, id) ==
  \E q \in Unfinished(r, "bookings") :
    id = IF reqs[q].kind = "reserve" THEN reqs[q].insertId ELSE reqs[q].id

\* ------------------------------------------- POST /api/bookings (Reserve)
ReserveBodies ==
  { [userName |-> c.userName, email |-> c.email, phone |-> c.phone,
     movieName |-> m, showTime |-> t, seatNumber |-> n] :
       c \in Customers, m \in movies, t \in showTimes,
       n \in { SeatNumberOf(row, i) : row \in seatRows, i \in seatCols }
               \cup {UnknownSeat} }

\* Requests the page has sent with fetch that have not reached the server:
\* still on their way, or lost.
Reserved == { o.req : o \in page.outbox }

\* Requests are numbered in the order in which they are sent.
NextReq(r) ==
  /\ reqs[r].kind = "none"
  /\ r \notin Reserved
  /\ \A q \in Reqs : q < r => (reqs[q].kind # "none" \/ q \in Reserved)

\* The request reaches its route handler, which issues its first command.
Dispatch(r, kind, body, id, cmd) ==
  /\ reqs' = [reqs EXCEPT ![r] = [NoReq EXCEPT !.kind = kind, !.body = body,
                                               !.id = id, !.pc = cmd,
                                               !.during = InFlight]]
  /\ queue' = Append(queue, [req |-> r, cmd |-> cmd])
  /\ DbUnchanged

\* A request sent by any HTTP client other than the open page.
Arrive(r, kind, body, id, cmd) ==
  /\ NextReq(r)
  /\ Dispatch(r, kind, body, id, cmd)
  /\ UNCHANGED page

PostBookings(r) ==
  \E body \in ReserveBodies : Arrive(r, "reserve", body, 0, "begin")

ReserveBegin(r) ==
  /\ AtHead(r, "reserve", "begin")
  /\ \E ok \in Outcomes :
       /\ IF ok
          THEN /\ beginTransaction
               /\ Continue(r, "checkSeat")
               /\ reqs' = [reqs EXCEPT ![r].pc = "checkSeat",
                             ![r].pre = Snapshot(seats, bookings)]
          ELSE /\ DbUnchanged
               /\ Finish
               /\ reqs' = [reqs EXCEPT ![r].pc = "done",
                             ![r].failedAt = "begin",
                             ![r].res = Err(500, "Transaction failed")]

ReserveCheckSeat(r) ==
  /\ AtHead(r, "reserve", "checkSeat")
  /\ \E ok \in Outcomes :
       LET b == reqs[r].body
           results == IF ok
                      THEN checkSeat(seats, b.seatNumber, b.movieName, b.showTime)
                      ELSE {}
           saw == reqs[r].sawIntermediate
                  \/ (ok /\ SeesSeat(r, {BodyTriple(b)}))
       IN
       /\ DbUnchanged
       /\ IF ~ok \/ Cardinality(results) = 0
          THEN /\ Continue(r, "rollback")
               /\ reqs' = [reqs EXCEPT ![r].pc = "done",
                             ![r].failedAt = IF ok THEN "none" ELSE "checkSeat",
                             ![r].results = results,
                             ![r].sawIntermediate = saw,
                             ![r].res = Err(400, "Seat not found")]
          ELSE IF \E s \in results : ~s.is_available
          THEN /\ Continue(r, "rollback")
               /\ reqs' = [reqs EXCEPT ![r].pc = "done",
                             ![r].results = results,
                             ![r].sawIntermediate = saw,
                             ![r].res = Err(400, "Seat already booked")]
          ELSE /\ Continue(r, "createBooking")
               /\ reqs' = [reqs EXCEPT ![r].pc = "createBooking",
                             ![r].results = results,
                             ![r].sawIntermediate = saw]

ReserveCreateBooking(r) ==
  /\ AtHead(r, "reserve", "createBooking")
  /\ \E ok \in Outcomes :
       LET b == reqs[r].body
           free == unique_seat_show(bookings, b.seatNumber, b.movieName, b.showTime)
       IN
       /\ IF ok /\ free
          THEN /\ Write(seats, createBooking(bookings, nextId, b))
               /\ nextId' = AutoIncrement(nextId)
               /\ Continue(r, "updateSeat")
               /\ reqs' = [reqs EXCEPT ![r].pc = "updateSeat",
                             ![r].insertId = nextId,
                             ![r].dirty = {"bookings"}]
          ELSE \* storage error, or ER_DUP_ENTRY on unique_seat_show (the
               \* failed insert still consumes its AUTO_INCREMENT value)
               /\ UNCHANGED <<seats, bookings, committed, inTxn>>
               /\ nextId' = IF ok THEN AutoIncrement(nextId) ELSE nextId
               /\ Continue(r, "rollback")
               /\ reqs' = [reqs EXCEPT ![r].pc = "done",
                             ![r].failedAt = IF ok THEN "none" ELSE "createBooking",
                             ![r].sawIntermediate =
                                 ( reqs[r].sawIntermediate
                                   \/ (ok /\ SeesBookingOf(r, {BodyTriple(b)})) ),
                             ![r].res = Err(500, "Failed to create booking")]

ReserveUpdateSeat(r) ==
  /\ AtHead(r, "reserve", "updateSeat")
  /\ \E ok \in Outcomes :
       LET b == reqs[r].body IN
       /\ UNCHANGED nextId
       /\ IF ok
          THEN /\ Write(updateSeat(seats, b.seatNumber, b.movieName,
                                   b.showTime, FALSE), bookings)
               /\ Continue(r, "commit")
               /\ reqs' = [reqs EXCEPT ![r].pc = "commit",
                             ![r].dirty = {"bookings", "seats"}]
          ELSE /\ UNCHANGED <<seats, bookings, committed, inTxn>>
               /\ Continue(r, "rollback")
               /\ reqs' = [reqs EXCEPT ![r].pc = "done",
                             ![r].failedAt = "updateSeat",
                             ![r].res = Err(500, "Failed to update seat")]

ReserveCommit(r) ==
  /\ AtHead(r, "reserve", "commit")
  /\ \E ok \in Outcomes :
       /\ IF ok
          THEN /\ commit
               /\ Finish
               /\ reqs' = [reqs EXCEPT ![r].pc = "done",
                             ![r].dirty = {},
                             ![r].res = Ok(reqs[r].insertId)]
          ELSE /\ DbUnchanged
               /\ Continue(r, "rollback")
               /\ reqs' = [reqs EXCEPT ![r].pc = "done",
                             ![r].failedAt = "commit",
                             ![r].res = Err(500, "Failed to commit transaction")]

\* db.rollback() is called without a callback: the command runs in its turn.
Rollback(r) ==
  /\ queue # <<>>
  /\ Head(queue) = [req |-> r, cmd |-> "rollback"]
  /\ rollback
  /\ Finish
  /\ reqs' = [reqs EXCEPT ![r].dirty = {}]

\* ------------------------------------ PUT /api/bookings/:id/cancel (Cancel)
\* The ids a client may name: every id handed out so far and one never used.
BookingIds == 1..nextId

PutBookingsCancel(r) ==
  \E id \in BookingIds : Arrive(r, "cancel", NoBody, id, "begin")

CancelBegin(r) ==
  /\ AtHead(r, "cancel", "begin")
  /\ \E ok \in Outcomes :
       /\ IF ok
          THEN /\ beginTransaction
               /\ Continue(r, "getBooking")
               /\ reqs' = [reqs EXCEPT ![r].pc = "getBooking",
                             ![r].pre = Snapshot(seats, bookings)]
          ELSE /\ DbUnchanged
               /\ Finish
               /\ reqs' = [reqs EXCEPT ![r].pc = "done",
                             ![r].failedAt = "begin",
                             ![r].res = Err(500, "Transaction failed")]

CancelGetBooking(r) ==
  /\ AtHead(r, "cancel", "getBooking")
  /\ \E ok \in Outcomes :
       LET results == IF ok THEN getConfirmedBooking(bookings, reqs[r].id)
                      ELSE {}
           saw == reqs[r].sawIntermediate
                  \/ (ok /\ SeesBookingId(r, reqs[r].id))
       IN
       /\ DbUnchanged
       /\ IF ~ok \/ Cardinality(results) = 0
          THEN /\ Continue(r, "rollback")
               /\ reqs' = [reqs EXCEPT ![r].pc = "done",
                             ![r].failedAt = IF ok THEN "none" ELSE "getBooking",
                             ![r].sawIntermediate = saw,
                             ![r].res =
                               Err(404, "Booking not found or already cancelled")]
          ELSE /\ Continue(r, "updateBooking")
               /\ reqs' = [reqs EXCEPT ![r].pc = "updateBooking",
                             ![r].results = results,
                             ![r].sawIntermediate = saw]

CancelUpdateBooking(r) ==
  /\ AtHead(r, "cancel", "updateBooking")
  /\ \E ok \in Outcomes :
       /\ UNCHANGED nextId
       /\ IF ok
          THEN /\ Write(seats, updateBooking(bookings, reqs[r].id))
               /\ Continue(r, "updateSeat")
               /\ reqs' = [reqs EXCEPT ![r].pc = "updateSeat",
                             ![r].dirty = {"bookings"}]
          ELSE /\ UNCHANGED <<seats, bookings, committed, inTxn>>
               /\ Continue(r, "rollback")
               /\ reqs' = [reqs EXCEPT ![r].pc = "done",
                             ![r].failedAt = "updateBooking",
                             ![r].res = Err(500, "Failed to cancel booking")]

\* The seat update issued with the flag left FALSE.
ReleaseSeat_StillTaken(r) ==
  LET booking == CHOOSE b \in reqs[r].results : TRUE IN
  Write(updateSeat(seats, booking.seat_number, booking.movie_name,
                   booking.show_time, FALSE), bookings)

\* UPDATE seats SET is_available = TRUE for the triple of the fetched row.
ReleaseSeat(r) ==
  LET booking == CHOOSE b \in reqs[r].results : TRUE IN
  Write(updateSeat(seats, booking.seat_number, booking.movie_name,
                   booking.show_time, TRUE), bookings)

CancelUpdateSeat(r) ==
  /\ AtHead(r, "cancel", "updateSeat")
  /\ \E ok \in Outcomes :
       /\ UNCHANGED nextId
       /\ IF ok
          THEN /\ ReleaseSeat(r)
               /\ Continue(r, "commit")
               /\ reqs' = [reqs EXCEPT ![r].pc = "commit",
                             ![r].dirty = {"bookings", "seats"}]
          ELSE /\ UNCHANGED <<seats, bookings, committed, inTxn>>
               /\ Continue(r, "rollback")
               /\ reqs' = [reqs EXCEPT ![r].pc = "done",
                             ![r].failedAt = "updateSeat",
                             ![r].res =
                               Err(500, "Failed to update seat availability")]

CancelCommit(r) ==
  /\ AtHead(r, "cancel", "commit")
  /\ \E ok \in Outcomes :
       /\ IF ok
          THEN /\ commit
               /\ Finish
               /\ reqs' = [reqs EXCEPT ![r].pc = "done",
                             ![r].dirty = {},
                             ![r].res = Ok(0)]
          ELSE /\ DbUnchanged
               /\ Continue(r, "rollback")
               /\ reqs' = [reqs EXCEPT ![r].pc = "done",
                             ![r].failedAt = "commit",
                             ![r].res = Err(500, "Failed to commit transaction")]

\* ------------------------------------------ DELETE /api/bookings/:id (Delete)
DeleteBookings(r) ==
  \E id \in BookingIds : Arrive(r, "delete", NoBody, id, "begin")

DeleteBegin(r) ==
  /\ AtHead(r, "delete", "begin")
  /\ \E ok \in Outcomes :
       /\ IF ok
          THEN /\ beginTransaction
               /\ Continue(r, "getBooking")
               /\ reqs' = [reqs EXCEPT ![r].pc = "getBooking",
                             ![r].pre = Snapshot(seats, bookings)]
          ELSE /\ DbUnchanged
               /\ Finish
               /\ reqs' = [reqs EXCEPT ![r].pc = "done",
                             ![r].failedAt = "begin",
                             ![r].res = Err(500, "Transaction failed")]

DeleteGetBooking(r) ==
  /\ AtHead(r, "delete", "getBooking")
  /\ \E ok \in Outcomes :
       LET results == IF ok THEN getBooking(bookings, reqs[r].id) ELSE {}
           saw == reqs[r].sawIntermediate
                  \/ (ok /\ SeesBookingId(r, reqs[r].id))
       IN
       /\ DbUnchanged
       /\ IF ~ok \/ Cardinality(results) = 0
          THEN /\ Continue(r, "rollback")
               /\ reqs' = [reqs EXCEPT ![r].pc = "done",
                             ![r].failedAt = IF ok THEN "none" ELSE "getBooking",
                             ![r].sawIntermediate = saw,
                             ![r].res = Err(404, "Booking not found")]
          ELSE /\ Continue(r, "deleteBooking")
               /\ reqs' = [reqs EXCEPT ![r].pc = "deleteBooking",
                             ![r].results = results,
                             ![r].sawIntermediate = saw]

DeleteDeleteBooking(r) ==
  /\ AtHead(r, "delete", "deleteBooking")
  /\ \E ok \in Outcomes :
       LET booking == CHOOSE b \in reqs[r].results : TRUE
           next == IF booking.status = "confirmed" THEN "updateSeat"
                   ELSE "commit"
       IN
       /\ UNCHANGED nextId
       /\ IF ok
          THEN /\ Write(seats, deleteBooking(bookings, reqs[r].id))
               /\ Continue(r, next)
               /\ reqs' = [reqs EXCEPT ![r].pc = next,
                             ![r].dirty = {"bookings"}]
          ELSE /\ UNCHANGED <<seats, bookings, committed, inTxn>>
               /\ Continue(r, "rollback")
               /\ reqs' = [reqs EXCEPT ![r].pc = "done",
                             ![r].failedAt = "deleteBooking",
                             ![r].res = Err(500, "Failed to delete booking")]

DeleteUpdateSeat(r) ==
  /\ AtHead(r, "delete", "updateSeat")
  /\ \E ok \in Outcomes :
       /\ UNCHANGED nextId
       /\ IF ok
          THEN /\ ReleaseSeat(r)
               /\ Continue(r, "commit")
               /\ reqs' = [reqs EXCEPT ![r].pc = "commit",
                             ![r].dirty = {"bookings", "seats"}]
          ELSE /\ UNCHANGED <<seats, bookings, committed, inTxn>>
               /\ Continue(r, "rollback")
               /\ reqs' = [reqs EXCEPT ![r].pc = "done",
                             ![r].failedAt = "updateSeat",
                             ![r].res =
                               Err(500, "Failed to update seat availability")]

DeleteCommit(r) ==
  /\ AtHead(r, "delete", "commit")
  /\ \E ok \in Outcomes :
       /\ IF ok
          THEN /\ commit
               /\ Finish
               /\ reqs' = [reqs EXCEPT ![r].pc = "done",
                             ![r].dirty = {},
                             ![r].res = Ok(0)]
          ELSE /\ DbUnchanged
               /\ Continue(r, "rollback")
               /\ reqs' = [reqs EXCEPT ![r].pc = "done",
                             ![r].failedAt = "commit",
                             ![r].res = Err(500, "Failed to commit transaction")]

\* ------------------------------ PUT /api/bookings/:id (UpdateContactInfo)
PutBookings(r) ==
  \E id \in BookingIds, c \in NewContacts :
    Arrive(r, "update",
           [NoBody EXCEPT !.userName = c.userName, !.email = c.email,
                          !.phone = c.phone],
           id, "query")

\* One UPDATE outside any transaction of its own.  affectedRows counts the
\* rows the WHERE clause matched.
PutBookingsQuery(r) ==
  /\ AtHead(r, "update", "query")
  /\ \E ok \in Outcomes :
       LET affectedRows == Cardinality(getBooking(bookings, reqs[r].id)) IN
       /\ UNCHANGED nextId
       /\ Finish
       /\ IF ~ok
          THEN /\ UNCHANGED <<seats, bookings, committed, inTxn>>
               /\ reqs' = [reqs EXCEPT ![r].pc = "done",
                             ![r].failedAt = "query",
                             ![r].res = Err(500, "Failed to update booking")]
          ELSE /\ Write(seats, updateContact(bookings, reqs[r].id, reqs[r].body))
               /\ reqs' = [reqs EXCEPT ![r].pc = "done",
                             ![r].sawIntermediate =
                                 ( reqs[r].sawIntermediate
                                   \/ SeesBookingId(r, reqs[r].id) ),
                             ![r].res = IF affectedRows = 0
                                        THEN Err(404, "Booking not found")
                                        ELSE Ok(0)]

\* ----------------------------------------- GET /api/seats/:movie/:showtime
GetSeats(r) ==
  \E m \in movies, t \in showTimes :
    Arrive(r, "seats", [NoBody EXCEPT !.movieName = m, !.showTime = t], 0,
           "query")

GetSeatsQuery(r) ==
  /\ AtHead(r, "seats", "query")
  /\ \E ok \in Outcomes :
       LET b == reqs[r].body
           results == { s \in seats : s.movie_name = b.movieName
                                      /\ s.show_time = b.showTime }
       IN
       /\ DbUnchanged
       /\ Finish
       /\ IF ~ok
          THEN reqs' = [reqs EXCEPT ![r].pc = "done",
                          ![r].failedAt = "query",
                          ![r].res = Err(500, "Failed to fetch seats")]
          ELSE reqs' = [reqs EXCEPT ![r].pc = "done",
                          ![r].results = results,
                          ![r].sawIntermediate =
                              SeesSeat(r, { Triple(x) : x \in results }),
                          ![r].res = Ok(0)]

\* ------------------------------------------------------ GET /api/bookings
GetBookings(r) == Arrive(r, "bookings", NoBody, 0, "query")

\* bookings JOIN seats on the triple.
GetBookingsQuery(r) ==
  /\ AtHead(r, "bookings", "query")
  /\ \E ok \in Outcomes :
       LET results ==
             { b \in bookings :
                 \E s \in seats : SameTriple(s, b.seat_number, b.movie_name,
                                             b.show_time) }
       IN
       /\ DbUnchanged
       /\ Finish
       /\ IF ~ok
          THEN reqs' = [reqs EXCEPT ![r].pc = "done",
                          ![r].failedAt = "query",
                          ![r].res = Err(500, "Failed to fetch bookings")]
          ELSE reqs' = [reqs EXCEPT ![r].pc = "done",
                          ![r].results = results,
                          ![r].sawIntermediate =
                              (Unfinished(r, "bookings") # {}),
                          ![r].res = Ok(0)]

\* -------------------------------------------------------- GET /api/movies
GetMovies(r) == Arrive(r, "movies", NoBody, 0, "query")

\* SELECT DISTINCT movie_name FROM seats
GetMoviesQuery(r) ==
  /\ AtHead(r, "movies", "query")
  /\ \E ok \in Outcomes :
       /\ DbUnchanged
       /\ Finish
       /\ IF ~ok
          THEN reqs' = [reqs EXCEPT ![r].pc = "done",
                          ![r].failedAt = "query",
                          ![r].res = Err(500, "Failed to fetch movies")]
          ELSE reqs' = [reqs EXCEPT ![r].pc = "done",
                          ![r].results = { x.movie_name : x \in seats },
                          ![r].res = Ok(0)]

\* ------------------------------------------------ GET /api/showtimes/:movie
GetShowTimes(r) ==
  \E m \in movies :
    Arrive(r, "showtimes", [NoBody EXCEPT !.movieName = m], 0, "query")

\* SELECT DISTINCT show_time FROM seats WHERE movie_name = ?
GetShowTimesQuery(r) ==
  /\ AtHead(r, "showtimes", "query")
  /\ \E ok \in Outcomes :
       /\ DbUnchanged
       /\ Finish
       /\ IF ~ok
          THEN reqs' = [reqs EXCEPT ![r].pc = "done",
                          ![r].failedAt = "query",
                          ![r].res = Err(500, "Failed to fetch show times")]
          ELSE reqs' = [reqs EXCEPT ![r].pc = "done",
                          ![r].results =
                            { x.show_time :
                                x \in { y \in seats :
                                          y.movie_name = reqs[r].body.movieName } },
                          ![r].res = Ok(0)]

\* -------------------------------------------------- GET /api/bookings/:id
GetBookingById(r) ==
  \E id \in BookingIds : Arrive(r, "booking", NoBody, id, "query")

\* bookings JOIN seats on the triple WHERE b.id = ?
GetBookingByIdQuery(r) ==
  /\ AtHead(r, "booking", "query")
  /\ \E ok \in Outcomes :
       LET results ==
             { b \in getBooking(bookings, reqs[r].id) :
                 \E x \in seats : SameTriple(x, b.seat_number, b.movie_name,
                                             b.show_time) }
       IN
       /\ DbUnchanged
       /\ Finish
       /\ IF ~ok
          THEN reqs' = [reqs EXCEPT ![r].pc = "done",
                          ![r].failedAt = "query",
                          ![r].res = Err(500, "Failed to fetch booking")]
          ELSE IF Cardinality(results) = 0
          THEN reqs' = [reqs EXCEPT ![r].pc = "done",
                          ![r].sawIntermediate = SeesBookingId(r, reqs[r].id),
                          ![r].res = Err(404, "Booking not found")]
          ELSE reqs' = [reqs EXCEPT ![r].pc = "done",
                          ![r].results = results,
                          ![r].sawIntermediate = SeesBookingId(r, reqs[r].id),
                          ![r].res = Ok(0)]

\* --------------------------------------------------------- server start
\* Seats tables a start of the server may find: nothing, or some rows left
\* by an earlier run.
SampleSeats ==
  { insertSeat("Batman", "10:00 AM", "A", 1),
    [insertSeat("Batman", "10:00 AM", "A", 2) EXCEPT !.is_available = FALSE],
    insertSeat("Spider-Man", "2:00 PM", "C", 10),
    insertSeat("Batman", "6:00 PM", "E", 5),
    insertSeat("Old Movie", "9:00 AM", "F", 1),
    [insertSeat("Spider-Man", "10:00 PM", "B", 7) EXCEPT !.price = 250] }

\* Inserts of the seeding that the storage layer may fail (the error is
\* logged and the seeding goes on).
LostSample == { insertSeat("Batman", "10:00 AM", "A", 1),
                insertSeat("Spider-Man", "2:00 PM", "C", 10) }

\* The arrays of initializeSeats in the order their forEach walks them.
CatalogMovieList == <<"Avengers: Endgame", "Spider-Man", "Batman">>
CatalogShowTimeList == <<"10:00 AM", "2:00 PM", "6:00 PM", "10:00 PM">>
CatalogRowList == <<"A", "B", "C", "D", "E">>

\* Number of INSERTs the nested loops queue.
CatalogSize ==
  Len(CatalogMovieList) * Len(CatalogShowTimeList) * Len(CatalogRowList)
    * Cardinality(CatalogCols)

\* The row of the k-th INSERT the nested loops queue.
SeedSeat(k) ==
  LET n == k - 1
      cols == Cardinality(CatalogCols)
      perShow == Len(CatalogRowList) * cols
      perMovie == Len(CatalogShowTimeList) * perShow
  IN insertSeat(CatalogMovieList[(n \div perMovie) + 1],
                CatalogShowTimeList[((n \div perShow)
                                       % Len(CatalogShowTimeList)) + 1],
                CatalogRowList[((n \div cols) % Len(CatalogRowList)) + 1],
                (n % cols) + 1)

\* app.listen has run: some start of the server took place.
Listening == \E q \in Reqs : reqs[q].kind = "seed"

\* Start number r of the server: db.connect is called (its handshake is
\* the connection's first command) and app.listen.  A start after the
\* first one is a restart of a server that was idle.
ServerStart(r) ==
  /\ NextReq(r)
  /\ queue = <<>>
  /\ ~inTxn
  /\ reqs' = [reqs EXCEPT ![r] = [NoReq EXCEPT !.kind = "seed",
                                               !.pc = "connect"]]
  /\ queue' = Append(queue, [req |-> r, cmd |-> "connect"])
  /\ DbUnchanged
  /\ UNCHANGED page

\* The handshake ends and db.connect's callback runs: createTables()
\* queues its two CREATE TABLE IF NOT EXISTS.
SeedConnect(r) ==
  /\ AtHead(r, "seed", "connect")
  /\ DbUnchanged
  /\ UNCHANGED page
  /\ \E ok \in Outcomes :
       IF ok
       THEN /\ queue' = Tail(queue) \o
                          << [req |-> r, cmd |-> "createBookingsTable"],
                             [req |-> r, cmd |-> "createSeatsTable"] >>
            /\ reqs' = [reqs EXCEPT ![r].pc = "createTables"]
       ELSE /\ queue' = Tail(queue)
            /\ reqs' = [reqs EXCEPT ![r].pc = "done",
                                    ![r].failedAt = "connect"]

\* CREATE TABLE IF NOT EXISTS bookings: a DDL statement, which commits the
\* transaction open on the connection; the callback only logs.
SeedCreateBookingsTable(r) ==
  /\ AtHead(r, "seed", "createBookingsTable")
  /\ Finish
  /\ \E ok \in Outcomes :
       IF ok
       THEN /\ commit
            /\ UNCHANGED reqs
       ELSE /\ DbUnchanged
            /\ reqs' = [reqs EXCEPT ![r].failedAt = "createBookingsTable"]

\* CREATE TABLE IF NOT EXISTS seats; its callback logs and, error or not,
\* calls initializeSeats(), which queues SELECT COUNT(*).
SeedCreateSeatsTable(r) ==
  /\ AtHead(r, "seed", "createSeatsTable")
  /\ Continue(r, "checkSeats")
  /\ \E ok \in Outcomes :
       IF ok
       THEN /\ commit
            /\ reqs' = [reqs EXCEPT ![r].pc = "checkSeats"]
       ELSE /\ DbUnchanged
            /\ reqs' = [reqs EXCEPT ![r].pc = "checkSeats",
                                    ![r].failedAt = "createSeatsTable"]

\* SELECT COUNT(*) FROM seats and its callback: on a count of 0 the nested
\* loops queue one INSERT for each seat of the catalog.
SeedCheckSeats(r) ==
  /\ AtHead(r, "seed", "checkSeats")
  /\ DbUnchanged
  /\ UNCHANGED page
  /\ \E ok \in Outcomes :
       IF ~ok
       THEN /\ queue' = Tail(queue)
            /\ reqs' = [reqs EXCEPT ![r].pc = "done",
                                    ![r].failedAt = "checkSeats"]
       ELSE IF Cardinality(seats) = 0
       THEN /\ queue' = Tail(queue) \o
                          [k \in 1..CatalogSize |->
                             [req |-> r, cmd |-> "insertSeat"]]
            /\ reqs' = [reqs EXCEPT ![r].pc = "insertSeat",
                                    ![r].pre = Snapshot(seats, bookings)]
       ELSE /\ queue' = Tail(queue)
            /\ reqs' = [reqs EXCEPT ![r].pc = "done",
                                    ![r].pre = Snapshot(seats, bookings)]

\* The next INSERT INTO seats of the start; its callback only logs an
\* error.  The key unique_seat refuses a second row of the same triple.
SeedInsertSeat(r) ==
  /\ AtHead(r, "seed", "insertSeat")
  /\ Finish
  /\ LET k == reqs[r].inserts + 1
         seat == SeedSeat(k)
         pc == IF k = CatalogSize THEN "done" ELSE "insertSeat"
     IN \E ok \in Outcomes :
          /\ ~ok => seat \in LostSample
          /\ IF ok /\ checkSeat(seats, seat.seat_number, seat.movie_name,
                                seat.show_time) = {}
             THEN /\ Write(seats \cup {seat}, bookings)
                  /\ UNCHANGED nextId
                  /\ reqs' = [reqs EXCEPT ![r].inserts = k, ![r].pc = pc]
             ELSE /\ DbUnchanged
                  /\ reqs' = [reqs EXCEPT ![r].inserts = k, ![r].pc = pc,
                                          ![r].failedAt = "insertSeat"]

\* ------------------------------------------------ client goes away
\* The client gives up on a request that is not answered yet (fetch aborted,
\* page closed, client-side timeout).  No handler listens for the request's
\* 'close' or 'aborted' event and no statement carries a timeout, so the
\* server goes on as if nothing happened; `aborted` keeps the callback
\* position at which the client left.
ClientAbort(r) ==
  /\ r \in InFlight
  /\ reqs[r].aborted = "none"
  /\ reqs' = [reqs EXCEPT ![r].aborted = reqs[r].pc]
  /\ UNCHANGED <<queue, page>>
  /\ DbUnchanged

\* ------------------------------------- client: edit form (updateBooking)
\* The value of a text field is the sequence of its UTF-16 code units, as
\* String.prototype.charCodeAt gives them: "Sita" is <<83, 105, 116, 97>>.
\* The request body and the tables hold strings.
\* The printable ASCII characters, from code unit 32 (space) to 126 (~);
\* the grave accent (96), which no string of this notation can hold, is
\* written the way Join writes a code unit outside this range.
Ascii ==
  <<
     " ", "!", "\"", "#", "$", "%", "&", "'", "(", ")", "*", "+",
     ",", "-", ".", "/", "0", "1", "2", "3", "4", "5", "6", "7",
     "8", "9", ":", ";", "<", "=", ">", "?", "@", "A", "B", "C",
     "D", "E", "F", "G", "H", "I", "J", "K", "L", "M", "N", "O",
     "P", "Q", "R", "S", "T", "U", "V", "W", "X", "Y", "Z", "[",
     "\\", "]", "^", "_", "\\u96;", "a", "b", "c", "d", "e", "f", "g",
     "h", "i", "j", "k", "l", "m", "n", "o", "p", "q", "r", "s",
     "t", "u", "v", "w", "x", "y", "z", "{", "|", "}", "~" >>

\* The code unit of a printable ASCII character.
Code(c) == 31 + (CHOOSE i \in 1..Len(Ascii) : Ascii[i] = c)

\* The code units of a text given character by character.
Text(chars) == [k \in 1..Len(chars) |-> Code(chars[k])]

\* The code units that the pattern \s and String.prototype.trim take as
\* white space (WhiteSpace and LineTerminator of ECMAScript): tab, line
\* feed, vertical tab, form feed, carriage return, space, no-break space,
\* U+1680, U+2000 to U+200A, U+2028, U+2029, U+202F, U+205F, U+3000 and
\* U+FEFF.
WhiteSpace ==
  {9, 10, 11, 12, 13, 32, 160, 5760} \cup (8192..8202)
    \cup {8232, 8233, 8239, 8287, 12288, 65279}

\* [0-9]
Digits == Code("0")..Code("9")

RECURSIVE TrimStart(_)
TrimStart(s) ==
  IF s # <<>> /\ Head(s) \in WhiteSpace THEN TrimStart(Tail(s)) ELSE s

RECURSIVE TrimEnd(_)
TrimEnd(s) ==
  IF s # <<>> /\ s[Len(s)] \in WhiteSpace
  THEN TrimEnd(SubSeq(s, 1, Len(s) - 1)) ELSE s

\* String.prototype.trim
trim(s) == TrimEnd(TrimStart(s))

\* /^[^\s@]+@[^\s@]+\.[^\s@]+$/.test(s)
emailRegex(s) ==
  \E i \in 1..Len(s) : \E j \in 1..Len(s) :
    /\ 1 < i /\ i + 1 < j /\ j < Len(s)
    /\ s[i] = Code("@") /\ s[j] = Code(".")
    /\ \A k \in (1..Len(s)) \ {i} : s[k] \notin WhiteSpace \cup {Code("@")}

\* s.replace(/[\s\-\(\)]/g, '')
StripPhone(s) ==
  LET Kept(c) == c \notin WhiteSpace \cup {Code("-"), Code("("), Code(")")}
  IN SelectSeq(s, Kept)

\* A pattern that takes any run of digits.
phoneRegex_AnyLength(s) == \A k \in 1..Len(s) : s[k] \in Digits

\* /^[0-9]{10,15}$/.test(s)
phoneRegex(s) ==
  /\ Len(s) >= 10 /\ Len(s) <= 15
  /\ \A k \in 1..Len(s) : s[k] \in Digits

\* The text as the string that JSON.stringify sends and the handler reads
\* back: a printable ASCII code unit is its character (the backslash is
\* doubled), any other code unit c is written \u<c>; in decimal.
RECURSIVE Join(_)
Join(s) ==
  IF s = <<>> THEN ""
  ELSE LET c == Head(s)
           shown == IF c = Code("\\") THEN "\\\\"
                    ELSE IF c \in 32..126 THEN Ascii[c - 31]
                    ELSE "\\u" \o ToString(c) \o ";"
       IN shown \o Join(Tail(s))

\* What the user may have typed or pasted into the three fields of the
\* edit form (a single-line field holds no line feed or carriage return).
FormNames ==
  { <<>>, <<32, 160, 12288>>,
    <<9>> \o Text(<<"S", "i", "t", "a">>) \o <<160>> }

FormEmails ==
  { <<>>, Text(<<"s", "@", "x">>),
    Text(<<"s">>) \o <<160>> \o Text(<<"@", "x", ".", "n", "p">>),
    Text(<<"s", "@", "x", ".", "n", "p">>) \o <<11>> }

FormPhones ==
  { <<>>, Text(<<"9", "8">>),
    Text(<<"9", "8", "1", "-", "1", "1", "1">>) \o <<8239>>
      \o Text(<<"1", "1", "1", "1">>) }

\* PUT /api/bookings/:id sent by any HTTP client: the handler takes
\* userName, email and phone from req.body as they come.
RawContacts ==
  LET full == [userName |-> "Sita", email |-> "sita@x.np",
               phone |-> "9811111111"]
  IN { full, [full EXCEPT !.userName = ""], [full EXCEPT !.email = ""],
       [full EXCEPT !.phone = ""] }

PutBookingsRaw(r) ==
  \E id \in BookingIds, c \in RawContacts :
    Arrive(r, "update",
           [NoBody EXCEPT !.userName = c.userName, !.email = c.email,
                          !.phone = c.phone],
           id, "query")

\* ---------------------------------------------------------- specification
\* A request arrives: the handler's synchronous part runs.
\* ------------------------------------------------------ the booking page
\* Movies, show times and seats of the store the page is opened on.
PageMovies == {"Batman", "Spider-Man"}

PageStore ==
  [seats |-> initializeSeatsOf({}, PageMovies, showTimes, {"A"}, seatCols),
   bookings |-> {}, nextId |-> 1]

\* What the user may have typed or pasted into the three fields of the
\* booking form.
PageForms ==
  LET full == [userName  |-> <<9>> \o Text(<<"S", "i", "t", "a">>),
               userEmail |-> Text(<<"s", "@", "x", ".", "n", "p">>)
                               \o <<12288>>,
               userPhone |-> Text(<<"(", "9", "8", ")", "1", "-", "1", "1",
                                    "1", " ", "1", "1">>) \o <<160>>
                               \o Text(<<"1", "1">>)]
  IN { full,
       [full EXCEPT !.userName = <<32, 65279>>],
       [full EXCEPT !.userEmail =
          Text(<<"s">>) \o <<11>> \o Text(<<"@", "x", ".", "n", "p">>)],
       [full EXCEPT !.userEmail = <<>>],
       [full EXCEPT !.userEmail = Text(<<"s", "@", "x">>)],
       [full EXCEPT !.userPhone = Text(<<"9", "8">>)],
       [full EXCEPT !.userPhone =
          Text(<<"9", "8", "1", "1", "1", "1", "1", "1",
                 "1", "1", "1", "1", "1", "1", "1", "1">>)] }

ServerUnchanged ==
  /\ DbUnchanged
  /\ UNCHANGED <<queue, reqs>>

Awaits(r, by) == [req |-> r, by |-> by] \in page.fetches

\* Page function `by` calls fetch on page p and yields at its await: the
\* request, numbered r, is on its way and nothing is at the server yet.
Fetch(p, r, by, kind, body, id, cmd) ==
  /\ NextReq(r)
  /\ page' = [p EXCEPT
                !.fetches = @ \cup {[req |-> r, by |-> by]},
                !.outbox = @ \cup {[req |-> r, kind |-> kind, body |-> body,
                                    id |-> id, cmd |-> cmd]}]
  /\ ServerUnchanged

\* app.use((req, res) => ...): no route matches the request, which is
\* answered 404 'Route not found'; no command is queued.
RouteNotFound(r, body) ==
  /\ reqs' = [reqs EXCEPT ![r] = [NoReq EXCEPT
                                    !.kind = "notfound", !.body = body,
                                    !.pc = "done", !.during = InFlight,
                                    !.res = Err(404, "Route not found")]]
  /\ UNCHANGED queue
  /\ DbUnchanged

\* A request sent by the page reaches the server.  The path of a GET for
\* show times or seats is built from currentMovie and currentShowTime
\* (encodeURIComponent); with an empty one the path has an empty segment,
\* which :movie and :showtime do not match, and no route handler runs.
FetchArrives(r) ==
  \E o \in page.outbox :
    /\ o.req = r
    /\ o.kind # "lost"
    /\ IF \/ o.kind = "showtimes" /\ o.body.movieName = ""
          \/ o.kind = "seats"
               /\ (o.body.movieName = "" \/ o.body.showTime = "")
       THEN RouteNotFound(r, o.body)
       ELSE Dispatch(r, o.kind, o.body, o.id, o.cmd)
    /\ page' = [page EXCEPT !.outbox = @ \ {o}]

\* The await of page function `by` on request r is over.
Settle(p, r, by) ==
  [p EXCEPT !.fetches = @ \ {[req |-> r, by |-> by]}]

\* The fetch of request r rejects: the await is over, and a request that
\* has not reached the server never does.
Reject(p, r, by) ==
  [Settle(p, r, by) EXCEPT
     !.outbox = { IF o.req = r
                  THEN [req |-> r, kind |-> "lost", body |-> NoBody,
                        id |-> 0, cmd |-> ""]
                  ELSE o : o \in @ }]

\* The response carries the route's success body (an array for the two
\* GET routes, success: true for POST /api/bookings), not an error body.
Replied200(r) == reqs[r].res.status = 200

\* loadShowTimes(), run when the user picks movie m in movieSelect, up to
\* its fetch of /api/showtimes/:movie.
ClientLoadShowTimes(r) ==
  \E m \in page.movieOptions \cup {""} :
    IF m = ""
    THEN /\ page' = [page EXCEPT !.currentMovie = m,
                                 !.showTimeOptions = {},
                                 !.showTimeValue = "",
                                 !.seatSelection = FALSE]
         /\ ServerUnchanged
    ELSE Fetch([page EXCEPT !.currentMovie = m], r, "loadShowTimes",
               "showtimes", [NoBody EXCEPT !.movieName = m], 0, "query")

\* loadShowTimes() after its fetch: the select is emptied, then filled with
\* the show times of the response; an error body has no forEach and ends
\* in the catch.
ShowTimesLoaded(r) ==
  /\ Awaits(r, "loadShowTimes") /\ Answered(r)
  /\ LET p == [Settle(page, r, "loadShowTimes") EXCEPT !.showTimeValue = ""]
     IN page' = IF Replied200(r)
                THEN [p EXCEPT !.showTimeOptions = reqs[r].results]
                ELSE [p EXCEPT !.showTimeOptions = {}]
  /\ ServerUnchanged

\* loadShowTimes() when its fetch rejects: the catch only alerts.
ShowTimesFetchFailed(r) ==
  /\ Awaits(r, "loadShowTimes")
  /\ page' = Reject(page, r, "loadShowTimes")
  /\ ServerUnchanged

\* loadSeats() on page p, up to its fetch of /api/seats/:movie/:showTime.
loadSeats(p, r) ==
  IF p.showTimeValue = ""
  THEN /\ page' = [p EXCEPT !.currentShowTime = "", !.seatSelection = FALSE]
       /\ ServerUnchanged
  ELSE Fetch([p EXCEPT !.currentShowTime = p.showTimeValue], r, "loadSeats",
             "seats", [NoBody EXCEPT !.movieName = p.currentMovie,
                                     !.showTime = p.showTimeValue], 0,
             "query")

\* The user picks show time t in showTimeSelect, which runs loadSeats().
ClientLoadSeats(r) ==
  \E t \in page.showTimeOptions \cup {""} :
    loadSeats([page EXCEPT !.showTimeValue = t], r)

\* loadSeats() after its fetch: displaySeats empties seatsContainer and
\* draws the seats of the response; an error body has no forEach and ends
\* in the catch, after the container was emptied.
SeatsLoaded(r) ==
  /\ Awaits(r, "loadSeats") /\ Answered(r)
  /\ LET p == Settle(page, r, "loadSeats")
     IN page' = IF Replied200(r)
                THEN [p EXCEPT !.seatsContainer = reqs[r].results,
                               !.seatSelection = TRUE]
                ELSE [p EXCEPT !.seatsContainer = {}]
  /\ ServerUnchanged

\* loadSeats() when its fetch rejects: the catch only alerts.
SeatsFetchFailed(r) ==
  /\ Awaits(r, "loadSeats")
  /\ page' = Reject(page, r, "loadSeats")
  /\ ServerUnchanged

\* selectSeat(seatNumber, price): the click (or Enter key) handler of a
\* seat drawn as available.
selectSeat ==
  /\ page.seatSelection
  /\ \E x \in page.seatsContainer :
       /\ x.is_available
       /\ page' = [page EXCEPT !.selectedSeat = x.seat_number,
                               !.chosenMovie = page.currentMovie,
                               !.chosenShowTime = page.currentShowTime]
  /\ ServerUnchanged

\* The user fills in the booking form.
ClientType ==
  /\ \E f \in PageForms :
       page' = [page EXCEPT !.userName = f.userName,
                            !.userEmail = f.userEmail,
                            !.userPhone = f.userPhone]
  /\ ServerUnchanged

\* resetBooking()
resetBooking(p) ==
  [p EXCEPT !.selectedSeat = null, !.userName = <<>>, !.userEmail = <<>>,
            !.userPhone = <<>>]

\* confirmBooking() up to its fetch: the checks, then POST /api/bookings.
confirmBooking(r) ==
  LET userName == trim(page.userName)
      userEmail == trim(page.userEmail)
      userPhone == trim(page.userPhone)
      refuse(msg) == UNCHANGED page /\ ServerUnchanged
  IN
  IF userName = <<>> \/ userEmail = <<>> \/ userPhone = <<>>
  THEN refuse("Please fill in all required fields")
  ELSE IF page.selectedSeat = null
  THEN refuse("Please select a seat")
  ELSE IF ~emailRegex(userEmail)
  THEN refuse("Please enter a valid email address")
  ELSE IF ~phoneRegex(StripPhone(userPhone))
  THEN refuse("Please enter a valid phone number")
  ELSE Fetch(page, r, "confirmBooking", "reserve",
             [userName |-> Join(userName), email |-> Join(userEmail),
              phone |-> Join(userPhone),
              movieName |-> page.currentMovie,
              showTime |-> page.currentShowTime,
              seatNumber |-> page.selectedSeat], 0, "begin")

\* confirmBooking() after its fetch was answered: on success the alert,
\* resetBooking() and loadSeats(); otherwise the alert only.
BookingAnswered(r) ==
  /\ Awaits(r, "confirmBooking") /\ Answered(r)
  /\ LET p == Settle(page, r, "confirmBooking") IN
     IF Replied200(r)
     THEN \E r2 \in Reqs :
            loadSeats(resetBooking(p), r2)
     ELSE /\ page' = p
          /\ ServerUnchanged

\* confirmBooking() when its fetch rejects (the request or its response is
\* lost): the catch only alerts.
BookingFetchFailed(r) ==
  /\ Awaits(r, "confirmBooking")
  /\ page' = Reject(page, r, "confirmBooking")
  /\ ServerUnchanged

\* ---------------------------------------------- the page's bookings list
\* loadBookings() on page p, up to its fetch of /api/bookings: the list
\* gives way to the spinner.
loadBookings(p, r) ==
  Fetch([p EXCEPT !.bookingsContainer = {}], r, "loadBookings",
        "bookings", NoBody, 0, "query")

\* showTab('manage'): the Manage tab is opened, which runs loadBookings().
showTab(r) == loadBookings(page, r)

\* loadBookings() after its fetch: one table row with its buttons for each
\* booking of the response.  An error body has no forEach and ends in the
\* catch, which shows the error text; so does a fetch that rejects,
\* whatever the server did.
BookingsLoaded(r) ==
  /\ Awaits(r, "loadBookings")
  /\ \/ /\ Answered(r) /\ Replied200(r)
        /\ page' = [Settle(page, r, "loadBookings") EXCEPT
                      !.bookingsContainer =
                        { [id |-> b.id, status |-> b.status] :
                            b \in reqs[r].results }]
     \/ /\ Answered(r) /\ ~Replied200(r)
        /\ page' = [Settle(page, r, "loadBookings") EXCEPT
                      !.bookingsContainer = {}]
     \/ page' = [Reject(page, r, "loadBookings") EXCEPT
                    !.bookingsContainer = {}]
  /\ ServerUnchanged

\* editBooking(bookingId), run by the Edit button of a listed booking, up
\* to its fetch of /api/bookings/:id.
editBooking(r) ==
  \E b \in page.bookingsContainer :
    Fetch(page, r, "editBooking", "booking", NoBody, b.id, "query")

\* editBooking() after its fetch: whatever JSON body came, currentBookingId
\* is set and the form is shown.
BookingLoadedForEdit(r) ==
  /\ Awaits(r, "editBooking") /\ Answered(r)
  /\ page' = [Settle(page, r, "editBooking") EXCEPT
                !.currentBookingId = reqs[r].id]
  /\ ServerUnchanged

\* editBooking() when its fetch rejects: the alert only.
EditFetchFailed(r) ==
  /\ Awaits(r, "editBooking")
  /\ page' = Reject(page, r, "editBooking")
  /\ ServerUnchanged

\* printBooking(bookingId), run by the Print button that addPrintButtons()
\* gives every listed booking after each loadBookings(): its fetch of
\* /api/bookings/:id.
printBooking(r) ==
  \E b \in page.bookingsContainer :
    Fetch(page, r, "printBooking", "booking", NoBody, b.id, "query")

\* printBooking() after its fetch, answered or rejected: the ticket is
\* written to a new window and printed, or the alert is shown; no global
\* and nothing of the page changes.
BookingPrinted(r) ==
  /\ Awaits(r, "printBooking")
  /\ \/ /\ Answered(r)
        /\ page' = Settle(page, r, "printBooking")
     \/ page' = Reject(page, r, "printBooking")
  /\ ServerUnchanged

\* closeEditModal(): currentBookingId = null, held here as 0 (booking ids
\* start at 1 and updateBooking() tests !currentBookingId).
closeEditModal(p) == [p EXCEPT !.currentBookingId = 0]

\* The Escape key or a click outside the form runs closeEditModal().
CloseEditModal ==
  /\ page' = closeEditModal(page)
  /\ ServerUnchanged

\* updateBooking() of the page up to its fetch: nothing without an open
\* form; it trims the three fields, refuses an empty one or a malformed
\* email or phone with an alert, and otherwise sends PUT /api/bookings/:id
\* with the trimmed values.
ClientUpdateBooking(r) ==
  /\ page.currentBookingId # 0
  /\ \E n \in FormNames, e \in FormEmails, p \in FormPhones :
       LET userData == [userName |-> trim(n), email |-> trim(e),
                        phone |-> trim(p)]
           alert(msg) == UNCHANGED page /\ ServerUnchanged
       IN
       IF userData.userName = <<>> \/ userData.email = <<>>
          \/ userData.phone = <<>>
       THEN alert("Please fill in all fields")
       ELSE IF ~emailRegex(userData.email)
       THEN alert("Please enter a valid email address")
       ELSE IF ~phoneRegex(StripPhone(userData.phone))
       THEN alert("Please enter a valid phone number")
       ELSE Fetch(page, r, "updateBooking", "update",
                  [NoBody EXCEPT !.userName = Join(userData.userName),
                                 !.email = Join(userData.email),
                                 !.phone = Join(userData.phone)],
                  page.currentBookingId, "query")

\* updateBooking() after its fetch was answered: on success the alert,
\* closeEditModal() and loadBookings(); otherwise the alert only.
BookingUpdated(r) ==
  /\ Awaits(r, "updateBooking") /\ Answered(r)
  /\ LET p == Settle(page, r, "updateBooking") IN
     IF Replied200(r)
     THEN \E r2 \in Reqs : loadBookings(closeEditModal(p), r2)
     ELSE /\ page' = p
          /\ ServerUnchanged

\* updateBooking() when its fetch rejects (the request or its response is
\* lost): the alert only.
UpdateFetchFailed(r) ==
  /\ Awaits(r, "updateBooking")
  /\ page' = Reject(page, r, "updateBooking")
  /\ ServerUnchanged

\* cancelBooking(bookingId), run by the Cancel button that a booking listed
\* as confirmed has, once the user has said yes to confirm(): up to its
\* fetch of PUT /api/bookings/:id/cancel.
ClientCancelBooking(r) ==
  \E b \in page.bookingsContainer :
    /\ b.status = "confirmed"
    /\ Fetch(page, r, "cancelBooking", "cancel", NoBody, b.id, "begin")

\* cancelBooking() after its fetch was answered: on success the alert and
\* loadBookings(); otherwise the alert only.
BookingCancelled(r) ==
  /\ Awaits(r, "cancelBooking") /\ Answered(r)
  /\ LET p == Settle(page, r, "cancelBooking") IN
     IF Replied200(r)
     THEN \E r2 \in Reqs : loadBookings(p, r2)
     ELSE /\ page' = p
          /\ ServerUnchanged

\* cancelBooking() when its fetch rejects: the alert only.
CancelFetchFailed(r) ==
  /\ Awaits(r, "cancelBooking")
  /\ page' = Reject(page, r, "cancelBooking")
  /\ ServerUnchanged

\* deleteBooking(bookingId), run by the Delete button of a listed booking
\* once the user has said yes to confirm(): up to its fetch of
\* DELETE /api/bookings/:id.
ClientDeleteBooking(r) ==
  \E b \in page.bookingsContainer :
    Fetch(page, r, "deleteBooking", "delete", NoBody, b.id, "begin")

\* deleteBooking() after its fetch was answered: on success the alert and
\* loadBookings(); otherwise the alert only.
BookingDeleted(r) ==
  /\ Awaits(r, "deleteBooking") /\ Answered(r)
  /\ LET p == Settle(page, r, "deleteBooking") IN
     IF Replied200(r)
     THEN \E r2 \in Reqs : loadBookings(p, r2)
     ELSE /\ page' = p
          /\ ServerUnchanged

\* deleteBooking() when its fetch rejects: the alert only.
DeleteFetchFailed(r) ==
  /\ Awaits(r, "deleteBooking")
  /\ page' = Reject(page, r, "deleteBooking")
  /\ ServerUnchanged

Request(r) ==
  \/ PostBookings(r)
  \/ PutBookingsCancel(r)
  \/ DeleteBookings(r)
  \/ PutBookings(r)

\* The connection runs its next command and the command's callback.
Command(r) ==
  \/ ReserveBegin(r)
  \/ ReserveCheckSeat(r)
  \/ ReserveCreateBooking(r)
  \/ ReserveUpdateSeat(r)
  \/ ReserveCommit(r)
  \/ CancelBegin(r)
  \/ CancelGetBooking(r)
  \/ CancelUpdateBooking(r)
  \/ CancelUpdateSeat(r)
  \/ CancelCommit(r)
  \/ DeleteBegin(r)
  \/ DeleteGetBooking(r)
  \/ DeleteDeleteBooking(r)
  \/ DeleteUpdateSeat(r)
  \/ DeleteCommit(r)
  \/ PutBookingsQuery(r)
  \/ Rollback(r)

\* Requests arrive at any time.
Next ==
  \E r \in Reqs :
    \/ Request(r) \/ GetSeats(r) \/ GetBookings(r)
    \/ Command(r) \/ GetSeatsQuery(r) \/ GetBookingsQuery(r)

Spec == Init /\ [][Next]_vars

\* Reserve, Cancel, Delete and UpdateContactInfo requests issued one at a
\* time, each after the previous one was answered, and no other request.
NextSeq == \E r \in Reqs : (InFlight = {} /\ Request(r)) \/ Command(r)

SeqSpec == StartWith(FreshStore, MaxSeqReqs) /\ [][NextSeq]_vars

\* Requests arriving at any time at a server whose store holds a cancelled
\* booking.
CancelledSpec == StartWith(CancelledStore, MaxReqs) /\ [][Next]_vars

\* The page's Manage tab (bookings list and edit form), and
\* UpdateContactInfo requests sent directly, at a server whose store holds
\* one booking; the page has loaded its list, and the edit form is closed
\* or was opened on the listed booking by an earlier editBooking().
InitEdit ==
  /\ seats = ReservedStore.seats
  /\ bookings = ReservedStore.bookings
  /\ committed = Snapshot(ReservedStore.seats, ReservedStore.bookings)
  /\ inTxn = FALSE
  /\ nextId = ReservedStore.nextId
  /\ queue = <<>>
  /\ reqs = [r \in 1..MaxEdits |-> NoReq]
  /\ \E open \in {0} \cup { b.id : b \in ReservedStore.bookings } :
       page = [NoPage EXCEPT !.currentBookingId = open,
                             !.bookingsContainer =
                               { [id |-> b.id, status |-> b.status] :
                                   b \in ReservedStore.bookings }]

NextEdit ==
  \/ CloseEditModal
  \/ \E r \in Reqs :
       \/ showTab(r) \/ BookingsLoaded(r)
       \/ editBooking(r) \/ BookingLoadedForEdit(r) \/ EditFetchFailed(r)
       \/ ClientUpdateBooking(r) \/ BookingUpdated(r)
       \/ UpdateFetchFailed(r)
       \/ ClientCancelBooking(r) \/ BookingCancelled(r)
       \/ CancelFetchFailed(r)
       \/ ClientDeleteBooking(r) \/ BookingDeleted(r)
       \/ DeleteFetchFailed(r)
       \/ printBooking(r) \/ BookingPrinted(r)
       \/ FetchArrives(r)
       \/ PutBookingsRaw(r)
       \/ GetBookingByIdQuery(r) \/ PutBookingsQuery(r)
       \/ GetBookingsQuery(r)
       \/ CancelBegin(r) \/ CancelGetBooking(r) \/ CancelUpdateBooking(r)
       \/ CancelUpdateSeat(r) \/ CancelCommit(r)
       \/ DeleteBegin(r) \/ DeleteGetBooking(r) \/ DeleteDeleteBooking(r)
       \/ DeleteUpdateSeat(r) \/ DeleteCommit(r)
       \/ Rollback(r)

EditSpec == InitEdit /\ [][NextEdit]_vars

\* Reserve requests only, one at a time, whose client may go away while the
\* request is in flight.
NextAbort ==
  \E r \in Reqs :
    \/ InFlight = {} /\ PostBookings(r)
    \/ ClientAbort(r)
    \/ ReserveBegin(r)
    \/ ReserveCheckSeat(r)
    \/ ReserveCreateBooking(r)
    \/ ReserveUpdateSeat(r)
    \/ ReserveCommit(r)
    \/ Rollback(r)

AbortSpec == StartWith(FreshStore, MaxAborts) /\ [][NextAbort]_vars

\* Starts of the server on a seats table that is empty or holds some rows,
\* and Reserve requests arriving from the first start on (app.listen does
\* not wait for the seeding).
InitSeed ==
  \E table \in SUBSET SampleSeats :
    StartWith([seats |-> table, bookings |-> {}, nextId |-> 1], MaxSeeds)

NextSeed ==
  \E r \in Reqs :
    \/ ServerStart(r)
    \/ SeedConnect(r)
    \/ SeedCreateBookingsTable(r)
    \/ SeedCreateSeatsTable(r)
    \/ SeedCheckSeats(r)
    \/ SeedInsertSeat(r)
    \/ Listening /\ PostBookings(r)
    \/ ReserveBegin(r)
    \/ ReserveCheckSeat(r)
    \/ ReserveCreateBooking(r)
    \/ ReserveUpdateSeat(r)
    \/ ReserveCommit(r)
    \/ Rollback(r)

SeedSpec == InitSeed /\ [][NextSeed]_vars

\* Every route of the server, requests arriving at any time, on a store that
\* holds one confirmed booking.
NextLedger ==
  \E r \in Reqs :
    \/ Request(r) \/ GetSeats(r) \/ GetBookings(r)
    \/ Command(r) \/ GetSeatsQuery(r) \/ GetBookingsQuery(r)
    \/ GetMovies(r) \/ GetMoviesQuery(r)
    \/ GetShowTimes(r) \/ GetShowTimesQuery(r)
    \/ GetBookingById(r) \/ GetBookingByIdQuery(r)

LedgerSpec == StartWith(ReservedStore, MaxLedgerReqs) /\ [][NextLedger]_vars

\* Reserve, Cancel and Delete requests arriving at any time, on a store that
\* holds one confirmed booking.
NextRelease ==
  \E r \in Reqs :
    \/ PostBookings(r) \/ PutBookingsCancel(r) \/ DeleteBookings(r)
    \/ ReserveBegin(r) \/ ReserveCheckSeat(r) \/ ReserveCreateBooking(r)
    \/ ReserveUpdateSeat(r) \/ ReserveCommit(r)
    \/ CancelBegin(r) \/ CancelGetBooking(r) \/ CancelUpdateBooking(r)
    \/ CancelUpdateSeat(r) \/ CancelCommit(r)
    \/ DeleteBegin(r) \/ DeleteGetBooking(r) \/ DeleteDeleteBooking(r)
    \/ DeleteUpdateSeat(r) \/ DeleteCommit(r)
    \/ Rollback(r)

ReleaseSpec ==
  StartWith(ReservedStore, MaxReleaseReqs) /\ [][NextRelease]_vars

\* One booking page, opened on a movie and a show time whose seats it has
\* drawn, and the server behind it.
OpenPage(n, form) ==
  /\ seats = PageStore.seats
  /\ bookings = PageStore.bookings
  /\ committed = Snapshot(PageStore.seats, PageStore.bookings)
  /\ inTxn = FALSE
  /\ nextId = PageStore.nextId
  /\ queue = <<>>
  /\ reqs = [r \in 1..n |-> NoReq]
  /\ \E m \in {"Batman"} : \E t \in showTimes :
       page = [NoPage EXCEPT
                 !.movieOptions = PageMovies,
                 !.currentMovie = m,
                 !.showTimeOptions = showTimes,
                 !.showTimeValue = t,
                 !.currentShowTime = t,
                 !.seatSelection = TRUE,
                 !.seatsContainer =
                   { x \in PageStore.seats :
                       x.movie_name = m /\ x.show_time = t },
                 !.userName = form.userName,
                 !.userEmail = form.userEmail,
                 !.userPhone = form.userPhone]

\* The user has typed or pasted something into the booking form.
NextPage ==
  \/ selectSeat
  \/ \E r \in Reqs :
       \/ ClientLoadShowTimes(r) \/ ShowTimesLoaded(r)
       \/ ShowTimesFetchFailed(r)
       \/ ClientLoadSeats(r) \/ SeatsLoaded(r) \/ SeatsFetchFailed(r)
       \/ confirmBooking(r) \/ BookingAnswered(r) \/ BookingFetchFailed(r)
       \/ FetchArrives(r)
       \/ GetShowTimesQuery(r) \/ GetSeatsQuery(r)
       \/ ReserveBegin(r) \/ ReserveCheckSeat(r) \/ ReserveCreateBooking(r)
       \/ ReserveUpdateSeat(r) \/ ReserveCommit(r) \/ Rollback(r)

PageSpec ==
  /\ \E form \in PageForms : OpenPage(MaxPageReqs, form)
  /\ [][NextPage]_vars

\* The same page with the user staying on the movie and the show time it
\* was opened on: selecting seats, filling in the form and confirming.
\* The booking form is empty.
NextBook ==
  \/ selectSeat
  \/ ClientType
  \/ \E r \in Reqs :
       \/ confirmBooking(r) \/ BookingAnswered(r) \/ BookingFetchFailed(r)
       \/ SeatsLoaded(r) \/ SeatsFetchFailed(r)
       \/ FetchArrives(r) \/ GetSeatsQuery(r)
       \/ ReserveBegin(r) \/ ReserveCheckSeat(r) \/ ReserveCreateBooking(r)
       \/ ReserveUpdateSeat(r) \/ ReserveCommit(r) \/ Rollback(r)

BookSpec ==
  /\ OpenPage(MaxBookReqs, [userName |-> <<>>, userEmail |-> <<>>,
                            userPhone |-> <<>>])
  /\ [][NextBook]_vars

\* The same requests on a connection that always runs its next command and
\* always invokes the command's callback: mysql2 runs the queued commands
\* in order, one after the other.
RunCommand ==
  \E r \in Reqs :
    \/ ReserveBegin(r) \/ ReserveCheckSeat(r) \/ ReserveCreateBooking(r)
    \/ ReserveUpdateSeat(r) \/ ReserveCommit(r)
    \/ CancelBegin(r) \/ CancelGetBooking(r) \/ CancelUpdateBooking(r)
    \/ CancelUpdateSeat(r) \/ CancelCommit(r)
    \/ DeleteBegin(r) \/ DeleteGetBooking(r) \/ DeleteDeleteBooking(r)
    \/ DeleteUpdateSeat(r) \/ DeleteCommit(r)
    \/ Rollback(r)

NextLive ==
  \/ \E r \in Reqs :
       PostBookings(r) \/ PutBookingsCancel(r) \/ DeleteBookings(r)
  \/ RunCommand

LiveSpec ==
  /\ StartWith(ReservedStore, MaxLiveReqs)
  /\ [][NextLive]_vars
  /\ WF_vars(RunCommand)

\* ================================================================= claims
Confirmed(b) == b.status = "confirmed"

\* The confirmed bookings of a triple.
Holders(seatNumber, movieName, showTime) ==
  { b \in bookings : Confirmed(b)
                     /\ SameTriple(b, seatNumber, movieName, showTime) }

HoldersOf(body) == Holders(body.seatNumber, body.movieName, body.showTime)

SeatOf(table, body) ==
  checkSeat(table, body.seatNumber, body.movieName, body.showTime)

\* The seat of the triple exists and is available in `table`.
Available(table, body) ==
  /\ SeatOf(table, body) # {}
  /\ \A s \in SeatOf(table, body) : s.is_available

\* The triple has no booking row, confirmed or cancelled, in `table`.
NoRowOf(table, body) ==
  \A b \in table :
    ~SameTriple(b, body.seatNumber, body.movieName, body.showTime)

Ids(table) == { b.id : b \in table }

\* r is answered and none of its commands is left in the queue.
Settled(r) ==
  /\ Answered(r)
  /\ \A i \in 1..Len(queue) : queue[i].req # r

IsReserve(r) == reqs[r].kind = "reserve"
Succeeded(r) == reqs[r].res.status = 200
Rejected(r, status, error) == reqs[r].res = Err(status, error)

NoStorageError == \A r \in Reqs : reqs[r].failedAt = "none"

\* r2 was issued while r1 was unanswered.
Concurrent(r1, r2) == r1 \in reqs[r2].during

\* C1: in every reachable state, whatever Reserve, Cancel, Delete and
\* UpdateContactInfo requests ran and however they interleaved, every
\* triple has at most one booking with status = confirmed.
C1_AtMostOneConfirmed ==
  \A b1 \in bookings : \A b2 \in bookings :
    ( /\ Confirmed(b1) /\ Confirmed(b2)
      /\ SameTriple(b1, b2.seat_number, b2.movie_name, b2.show_time) )
    => b1 = b2

\* Two interleaved Reserves of one triple both read the seat as available,
\* and the triple has a confirmed booking.
C1_Witness ==
  \E r1 \in Reqs : \E r2 \in Reqs :
    /\ r1 # r2 /\ IsReserve(r1) /\ IsReserve(r2)
    /\ reqs[r1].body = reqs[r2].body
    /\ Concurrent(r1, r2)
    /\ Available(reqs[r1].results, reqs[r1].body)
    /\ Available(reqs[r2].results, reqs[r2].body)
    /\ HoldersOf(reqs[r1].body) # {}

\* C2: of the Reserve requests issued concurrently for one existing,
\* available triple that has no booking row (no storage error, no other
\* request), exactly one is answered with
\* success and every other one with 400 'Seat already booked'.
C2_OneWinnerRestUnavailable ==
  \A r1 \in Reqs : \A r2 \in Reqs :
    ( /\ IsReserve(r1) /\ IsReserve(r2) /\ Concurrent(r1, r2)
      /\ reqs[r1].body = reqs[r2].body
      /\ Available(reqs[r1].pre.seats, reqs[r1].body)
      /\ Available(reqs[r2].pre.seats, reqs[r2].body)
      /\ NoRowOf(reqs[r1].pre.bookings, reqs[r1].body)
      /\ Answered(r1) /\ Answered(r2)
      /\ NoStorageError )
    => \/ Succeeded(r1) /\ Rejected(r2, 400, "Seat already booked")
       \/ Succeeded(r2) /\ Rejected(r1, 400, "Seat already booked")

\* C3: served one at a time with nothing in between, Reserve(t) succeeds,
\* Cancel of that booking succeeds, and then a second Reserve(t) succeeds
\* and leaves a new confirmed booking of t.
C3_ReserveCancelReserve ==
  \A r \in Reqs :
    ( /\ r + 2 \in Reqs
      /\ IsReserve(r) /\ Succeeded(r)
      /\ reqs[r + 1].kind = "cancel"
      /\ reqs[r + 1].id = reqs[r].res.bookingId
      /\ Succeeded(r + 1)
      /\ IsReserve(r + 2) /\ reqs[r + 2].body = reqs[r].body
      /\ Answered(r + 2) /\ reqs[r + 2].failedAt = "none" )
    => /\ Succeeded(r + 2)
       /\ reqs[r + 2].res.bookingId # reqs[r].res.bookingId

\* C4: a Reserve in which a storage error occurred leaves, once it is
\* answered and its rollback has run, no booking row of its own; and when
\* no other request ran beside it, seats and bookings are exactly as they
\* were when it began.
C4_FailedReserveLeavesNothing ==
  \A r \in Reqs :
    ( IsReserve(r) /\ reqs[r].failedAt # "none" /\ Settled(r) )
    => /\ \A b \in bookings :
            reqs[r].insertId # 0 => b.id # reqs[r].insertId
       /\ ( /\ reqs[r].during = {}
            /\ \A q \in Arrived : q <= r \/ reqs[q].pc = "begin"
            /\ reqs[r].failedAt # "begin" )
          => Snapshot(seats, bookings) = reqs[r].pre

\* C5: no statement of a request reads a seat row or a booking row that
\* another request's unit has written and neither committed nor rolled back
\* yet (for GET /api/bookings: any booking row so written).
C5_NoIntermediateStateObserved ==
  \A r \in Reqs : ~reqs[r].sawIntermediate

\* C6: at the moment a Reserve is answered with success (no storage error
\* having occurred), the triple has
\* exactly one confirmed booking, it carries the returned bookingId, and the
\* seat's is_available is FALSE.
ReserveHolds(r) ==
  /\ Cardinality(HoldersOf(reqs[r].body)) = 1
  /\ \A b \in HoldersOf(reqs[r].body) : b.id = reqs[r].res.bookingId
  /\ SeatOf(seats, reqs[r].body) # {}
  /\ \A s \in SeatOf(seats, reqs[r].body) : ~s.is_available

C6_SuccessLeavesBooking ==
  [][ \A r \in Reqs :
        ( IsReserve(r) /\ ~Answered(r) /\ Succeeded(r)' /\ NoStorageError' )
        => ReserveHolds(r)'
    ]_vars

\* C7: a Reserve whose availability read returns is_available = FALSE is
\* answered 400 'Seat already booked', and none of its commands changes a
\* seat or a booking.
ReadTaken(r) ==
  /\ reqs[r].failedAt = "none"
  /\ reqs[r].pc = "done"
  /\ reqs[r].results # {}
  /\ \A s \in reqs[r].results : ~s.is_available

C7_UnavailableRejected ==
  [][ \A r \in Reqs :
        ( /\ queue # <<>> /\ Head(queue).req = r
          /\ IsReserve(r) /\ ReadTaken(r)' /\ NoStorageError' )
        => /\ Rejected(r, 400, "Seat already booked")'
           /\ seats' = seats
           /\ bookings' = bookings
    ]_vars

\* C8: a Reserve whose triple has no seat record is answered 400 'Seat not
\* found', and none of its commands creates a booking row or changes a seat.
ReadNoSeat(r) ==
  /\ reqs[r].failedAt = "none"
  /\ reqs[r].pc = "done"
  /\ reqs[r].results = {}
  /\ reqs[r].body.seatNumber = UnknownSeat

C8_UnknownSeatRejected ==
  [][ \A r \in Reqs :
        ( /\ queue # <<>> /\ Head(queue).req = r
          /\ IsReserve(r) /\ ReadNoSeat(r)' /\ NoStorageError' )
        => /\ Rejected(r, 400, "Seat not found")'
           /\ seats' = seats
           /\ Ids(bookings)' \subseteq Ids(bookings)
    ]_vars

\* C9: a Reserve, Cancel or Delete in which a storage error occurred is
\* answered with status 500, never 400 or 404.
C9_StorageErrorIs500 ==
  \A r \in Reqs :
    ( /\ reqs[r].kind \in {"reserve", "cancel", "delete"}
      /\ reqs[r].failedAt # "none" )
    => reqs[r].res.status = 500

\* C10: served one at a time, after Reserve(t) succeeded and Delete of that
\* booking succeeded the booking row is gone and seat t is available, and a
\* Reserve(t) that follows (without storage error) succeeds and holds t.
ReservedThenDeleted(r) ==
  /\ r + 1 \in Reqs
  /\ IsReserve(r) /\ Succeeded(r)
  /\ reqs[r + 1].kind = "delete"
  /\ reqs[r + 1].id = reqs[r].res.bookingId
  /\ Succeeded(r + 1)

C10_ReserveDeleteReserve ==
  \A r \in Reqs :
    ReservedThenDeleted(r)
    => /\ ( \A q \in Arrived : q <= r + 1 )
          => /\ getBooking(bookings, reqs[r].res.bookingId) = {}
             /\ Available(seats, reqs[r].body)
       /\ ( /\ r + 2 \in Reqs
            /\ IsReserve(r + 2) /\ reqs[r + 2].body = reqs[r].body
            /\ Answered(r + 2) /\ reqs[r + 2].failedAt = "none" )
          => /\ Succeeded(r + 2)
             /\ ( \A q \in Arrived : q <= r + 2 )
                => \E b \in HoldersOf(reqs[r].body) :
                     b.id = reqs[r + 2].res.bookingId

\* The third request of Reserve(t), Delete, Reserve(t) has been answered
\* with success.
C10_Witness ==
  \E r \in Reqs :
    /\ ReservedThenDeleted(r)
    /\ r + 2 \in Reqs
    /\ IsReserve(r + 2) /\ reqs[r + 2].body = reqs[r].body
    /\ Succeeded(r + 2)

\* ---------------------------------------------------------------- Cancel,
\* Delete and UpdateContactInfo contracts
IsKind(r, kind) == reqs[r].kind = kind

\* The step runs the command at the head of the queue, and it is one of
\* request r (an arriving request makes the queue longer instead).
Runs(r) ==
  /\ queue # <<>> /\ Head(queue).req = r
  /\ Len(queue') <= Len(queue)

\* r fetched its booking and the row fetched has the given status.
Fetched(r, status) ==
  /\ reqs[r].results # {}
  /\ \A b \in reqs[r].results : b.status = status

\* C11: no command of a Delete that fetched its booking with status
\* cancelled changes a seat, and when that Delete is answered with success
\* (no storage error having occurred) the booking row is gone.
C11_DeleteCancelledKeepsSeats ==
  [][ \A r \in Reqs :
        ( /\ Runs(r) /\ IsKind(r, "delete")
          /\ Fetched(r, "cancelled")' /\ NoStorageError' )
        => /\ seats' = seats
           /\ (~Answered(r) /\ Succeeded(r)')
              => getBooking(bookings', reqs[r].id) = {}
    ]_vars

\* The row of `table` with the id of b, when it has b's customer fields and
\* b's triple.
SameBooking(b, table) ==
  { x \in table : /\ x.id = b.id
                  /\ x.user_name = b.user_name /\ x.email = b.email
                  /\ x.phone = b.phone /\ Triple(x) = Triple(b) }

SeatFree(table, booking) ==
  /\ checkSeat(table, booking.seat_number, booking.movie_name,
               booking.show_time) # {}
  /\ \A x \in checkSeat(table, booking.seat_number, booking.movie_name,
                         booking.show_time) : x.is_available

\* C12: no command of a Cancel that fetched a confirmed booking removes a
\* booking row or changes a row's id, customer fields or triple; and when
\* that Cancel is answered with success (no storage error having occurred)
\* the booking fetched is in the store with status cancelled and its seat's
\* is_available is TRUE.
C12_CancelKeepsRowFreesSeat ==
  [][ \A r \in Reqs :
        ( /\ Runs(r) /\ IsKind(r, "cancel")
          /\ Fetched(r, "confirmed")' /\ NoStorageError' )
        => /\ \A b \in bookings : SameBooking(b, bookings') # {}
           /\ (~Answered(r) /\ Succeeded(r)')
              => \A b \in reqs[r].results :
                   /\ \E x \in bookings' :
                        /\ x.id = b.id /\ Triple(x) = Triple(b)
                        /\ x.status = "cancelled"
                   /\ SeatFree(seats', b)
    ]_vars

\* r's fetch of its booking ran without error and returned no row.
FetchedNone(r) ==
  /\ reqs[r].failedAt = "none"
  /\ reqs[r].pc = "done"
  /\ reqs[r].results = {}

\* C13: a Cancel whose fetch finds no confirmed booking with the id (no such
\* id, or the booking is already cancelled) is answered 404, and none of
\* its commands changes a booking or a seat.
C13_NotCancellableRejected ==
  [][ \A r \in Reqs :
        ( /\ Runs(r) /\ IsKind(r, "cancel")
          /\ FetchedNone(r)' /\ NoStorageError' )
        => /\ reqs[r].res'.status = 404
           /\ seats' = seats
           /\ bookings' = bookings
    ]_vars

\* C14: a Delete whose fetch finds no booking with the id is answered 404,
\* and none of its commands changes a booking or a seat.
C14_DeleteUnknownRejected ==
  [][ \A r \in Reqs :
        ( /\ Runs(r) /\ IsKind(r, "delete")
          /\ FetchedNone(r)' /\ NoStorageError' )
        => /\ Rejected(r, 404, "Booking not found")'
           /\ seats' = seats
           /\ bookings' = bookings
    ]_vars

\* Request q names booking b or b's triple.
Touches(q, b) ==
  \/ IsReserve(q) /\ BodyTriple(reqs[q].body) = Triple(b)
  \/ reqs[q].kind \in {"cancel", "delete", "update"} /\ reqs[q].id = b.id

AfterFetch == {"updateBooking", "deleteBooking", "updateSeat", "commit"}

\* C15: a Cancel or Delete in which a statement after the fetch (status
\* update, row delete, seat update or commit) failed is answered 500 and,
\* once its rollback has run and provided no other request named the
\* booking or its triple, the booking fetched is in the store as fetched
\* and its seat is as it was when the request began.
C15_FailedCancelDeleteRestores ==
  \A r \in Reqs :
    ( /\ reqs[r].kind \in {"cancel", "delete"}
      /\ reqs[r].failedAt \in AfterFetch
      /\ Settled(r) )
    => /\ reqs[r].res.status = 500
       /\ \A b \in reqs[r].results :
            ( \A q \in Arrived \ {r} : ~Touches(q, b) )
            => /\ b \in bookings
               /\ checkSeat(seats, b.seat_number, b.movie_name, b.show_time)
                  = checkSeat(reqs[r].pre.seats, b.seat_number,
                              b.movie_name, b.show_time)

\* C16: the statement of an UpdateContactInfo changes no seat; it gives the
\* booking addressed the name, email and phone of the request and leaves its
\* id, status and triple, and every other booking, as they are (answer:
\* success); when no booking has the id it changes nothing and is answered
\* 404 'Booking not found'.
C16_UpdateContactFrame ==
  [][ \A r \in Reqs :
        ( Runs(r) /\ IsKind(r, "update") /\ reqs[r].failedAt' = "none" )
        => /\ seats' = seats
           /\ bookings' =
                { IF b.id = reqs[r].id
                  THEN [b EXCEPT !.user_name = reqs[r].body.userName,
                                 !.email = reqs[r].body.email,
                                 !.phone = reqs[r].body.phone]
                  ELSE b : b \in bookings }
           /\ \A b \in bookings : \E x \in bookings' :
                /\ x.id = b.id /\ x.status = b.status
                /\ Triple(x) = Triple(b)
                /\ b.id # reqs[r].id => x = b
           /\ IF getBooking(bookings, reqs[r].id) = {}
              THEN /\ Rejected(r, 404, "Booking not found")'
                   /\ bookings' = bookings
              ELSE Succeeded(r)'
    ]_vars

\* One UpdateContactInfo of a booking was answered with success
\* and the row carries the new name, and one for an id no booking has was
\* answered 404.
C16_Witness ==
  \E r1 \in Reqs : \E r2 \in Reqs :
    /\ IsKind(r1, "update") /\ Succeeded(r1)
    /\ \E b \in bookings : /\ b.id = reqs[r1].id
                            /\ b.user_name = reqs[r1].body.userName
    /\ IsKind(r2, "update") /\ Rejected(r2, 404, "Booking not found")

HasEmptyField(body) ==
  body.userName = "" \/ body.email = "" \/ body.phone = ""

Queued(r) == \E i \in 1..Len(queue) : queue[i].req = r

\* C17: an UpdateContactInfo request with an empty name, email or phone
\* never has a storage statement issued for it, is never answered with
\* success, and no booking ever carries an empty name, email or phone.
C17_EmptyContactRejected ==
  /\ \A r \in Reqs :
       ( IsKind(r, "update") /\ HasEmptyField(reqs[r].body) )
       => ~Queued(r) /\ ~Succeeded(r)
  /\ \A b \in bookings :
       b.user_name # "" /\ b.email # "" /\ b.phone # ""

\* C18: a Reserve whose client gave up before the Reserve's COMMIT ran
\* leaves, once the server is done with it, no booking row of its own, and
\* its seat available unless another confirmed booking holds it.
C18_AbortedReserveRolledBack ==
  \A r \in Reqs :
    ( /\ IsReserve(r) /\ reqs[r].aborted # "none"
      /\ Settled(r) )
    => /\ reqs[r].insertId # 0
          => getBooking(bookings, reqs[r].insertId) = {}
       /\ SeatOf(seats, reqs[r].body) # {}
          => \/ Available(seats, reqs[r].body)
             \/ \E b \in HoldersOf(reqs[r].body) : b.id # reqs[r].insertId

\* The seats of `table` for one combination.
SeatsAt(table, movie, showTime, row, i) ==
  { x \in table : /\ x.movie_name = movie /\ x.show_time = showTime
                  /\ x.seat_number = row \o ToString(i) }

\* C19: once a start of the server has run all its commands without
\* storage error, then, if its SELECT COUNT(*) found the seats table empty,
\* the table holds exactly one seat for each catalog movie, showtime, row
\* A-E and number 1-10 and no other seat, premium at 200 in rows A and B,
\* regular at 150 in the other rows, each available unless a Reserve asked
\* for it; if the count found rows, the table holds the seats it held.
C19_SeedingCreatesCatalog ==
  \A r \in Reqs :
    ( /\ reqs[r].kind = "seed" /\ reqs[r].pc = "done"
      /\ NoStorageError )
    => IF reqs[r].pre.seats = {}
       THEN /\ Cardinality(seats) = 3 * 4 * 5 * 10
            /\ \A movie \in {"Avengers: Endgame", "Spider-Man", "Batman"},
                  showTime \in {"10:00 AM", "2:00 PM", "6:00 PM", "10:00 PM"},
                  row \in {"A", "B", "C", "D", "E"}, i \in 1..10 :
                 /\ Cardinality(SeatsAt(seats, movie, showTime, row, i)) = 1
                 /\ \A x \in SeatsAt(seats, movie, showTime, row, i) :
                      /\ \/ x.is_available
                         \/ \E q \in Reqs :
                              /\ reqs[q].kind = "reserve"
                              /\ SameTriple(x, reqs[q].body.seatNumber,
                                            reqs[q].body.movieName,
                                            reqs[q].body.showTime)
                      /\ IF row \in {"A", "B"}
                         THEN x.seat_type = "premium" /\ x.price = 200
                         ELSE x.seat_type = "regular" /\ x.price = 150
       ELSE { [x EXCEPT !.is_available = TRUE] : x \in seats }
              = { [x EXCEPT !.is_available = TRUE] : x \in reqs[r].pre.seats }

\* C20: at every step the booking ids answered by successful Reserves are
\* pairwise distinct, no two rows share an id, a row that keeps its id keeps
\* its triple, and an id answered by a successful Reserve never names a
\* booking of another triple (also after deletes and rollbacks).
C20_IdsUniqueAndStable ==
  [][ /\ \A r1 \in Reqs : \A r2 \in Reqs :
           ( /\ r1 # r2 /\ IsReserve(r1)' /\ IsReserve(r2)'
             /\ Succeeded(r1)' /\ Succeeded(r2)' )
           => reqs[r1].res'.bookingId # reqs[r2].res'.bookingId
      /\ \A x \in bookings' : \A y \in bookings' : x.id = y.id => x = y
      /\ \A b \in bookings : \A x \in bookings' :
           x.id = b.id => Triple(x) = Triple(b)
      /\ \A r \in Reqs :
           ( IsReserve(r)' /\ Succeeded(r)' )
           => \A x \in bookings' :
                x.id = reqs[r].res'.bookingId
                => Triple(x) = BodyTriple(reqs[r].body')
    ]_vars

\* A Reserve was answered with success, its booking was deleted, and a later
\* Reserve of the same triple was answered with success; its booking is in
\* the store under the id answered.
C20_Witness ==
  \E r1 \in Reqs : \E r2 \in Reqs :
    /\ r1 < r2 /\ IsReserve(r1) /\ IsReserve(r2)
    /\ reqs[r1].body = reqs[r2].body
    /\ Succeeded(r1) /\ Succeeded(r2)
    /\ getBooking(bookings, reqs[r1].res.bookingId) = {}
    /\ getBooking(bookings, reqs[r2].res.bookingId) # {}

\* ------------------------------------------------------- the seat ledger
\* A seat without its availability flag.
SeatIdentity(x) ==
  [seat_number |-> x.seat_number, movie_name |-> x.movie_name,
   show_time |-> x.show_time, seat_type |-> x.seat_type, price |-> x.price]

\* C21: at every step the seat triples stay pairwise distinct, the seats
\* and their seat_type and price stay as they are, and is_available of a
\* seat changes only in a step that runs a command of a Reserve, a Cancel
\* or a Delete.
C21_SeatLedgerFrame ==
  [][ /\ \A x \in seats' : \A y \in seats' : Triple(x) = Triple(y) => x = y
      /\ { SeatIdentity(x) : x \in seats' } = { SeatIdentity(x) : x \in seats }
      /\ seats' # seats
         => \E r \in Reqs :
              Runs(r) /\ reqs[r].kind \in {"reserve", "cancel", "delete"}
    ]_vars

\* A Cancel released a seat and a list, fetch or UpdateContactInfo request
\* was answered with success.
C21_Witness ==
  \E r1 \in Reqs : \E r2 \in Reqs :
    /\ reqs[r1].kind = "cancel" /\ Succeeded(r1)
    /\ reqs[r2].kind \in {"movies", "showtimes", "seats", "booking",
                          "bookings", "update"}
    /\ Succeeded(r2)
    /\ seats # ReservedStore.seats

\* No request is unanswered and no command is left on the connection.
Quiescent == queue = <<>> /\ InFlight = {}

\* C22: in every quiescent state (here: reached without any storage error)
\* a seat's is_available is FALSE exactly when its triple has exactly one
\* confirmed booking.
C22_FlagMatchesHolder ==
  ( Quiescent /\ NoStorageError )
  => \A x \in seats :
       ~x.is_available
       <=> Cardinality(Holders(x.seat_number, x.movie_name, x.show_time)) = 1

\* What a request answered with success has promised, read from the stored
\* rows: the booking it created exists, the booking it cancelled is no
\* longer confirmed, the booking it deleted is gone, the contact it wrote is
\* the stored contact.
EffectStored(r, table) ==
  /\ IsKind(r, "reserve")
     => \E b \in table : b.id = reqs[r].res.bookingId
  /\ IsKind(r, "cancel")
     => \A b \in getBooking(table, reqs[r].id) : b.status # "confirmed"
  /\ IsKind(r, "delete") => getBooking(table, reqs[r].id) = {}
  /\ IsKind(r, "update")
     => \A b \in getBooking(table, reqs[r].id) :
          /\ b.user_name = reqs[r].body.userName
          /\ b.email = reqs[r].body.email
          /\ b.phone = reqs[r].body.phone

\* C23: a request answered with success is durable whatever the other
\* requests on the connection do: at the step that answers a Reserve, an
\* UpdateContactInfo, a Cancel or a Delete with success (no storage error
\* anywhere), the effect it reports is in the stored rows; in particular the
\* bookingId a Reserve returns names an existing booking row.
C23_SuccessIsDurable ==
  [][ \A r \in Reqs :
        ( /\ reqs[r].kind \in {"reserve", "cancel", "delete", "update"}
          /\ ~Answered(r) /\ Succeeded(r)' /\ NoStorageError' )
        => EffectStored(r, bookings)'
    ]_vars

\* The seats that the step makes available.
Released ==
  { x \in seats' :
      /\ x.is_available
      /\ \E y \in seats : Triple(y) = Triple(x) /\ ~y.is_available }

\* C24: the seat update of a Cancel or a Delete never makes available a
\* seat that, when the write is applied, is held by a confirmed booking
\* other than the one the request fetched (no storage error anywhere).
C24_NoStaleRelease ==
  [][ \A r \in Reqs :
        ( /\ Runs(r) /\ reqs[r].kind \in {"cancel", "delete"}
          /\ reqs[r].pc = "updateSeat" /\ NoStorageError' )
        => \A x \in Released :
             \A b \in Holders(x.seat_number, x.movie_name, x.show_time) :
               b.id = reqs[r].id
    ]_vars

NotCancellable(r) ==
  Rejected(r, 404, "Booking not found or already cancelled")

\* The booking that r addresses was confirmed when r began.
BeganOnConfirmed(r) ==
  /\ reqs[r].pre # NoSnapshot
  /\ \E b \in getBooking(reqs[r].pre.bookings, reqs[r].id) : Confirmed(b)

\* C25: of two Cancel requests issued concurrently for the same confirmed
\* booking, once both are answered (no storage error anywhere) exactly one
\* is answered with success and the other is answered 404.
C25_OneCancelWins ==
  \A r1 \in Reqs : \A r2 \in Reqs :
    ( /\ r1 # r2 /\ Concurrent(r1, r2)
      /\ IsKind(r1, "cancel") /\ IsKind(r2, "cancel")
      /\ reqs[r1].id = reqs[r2].id
      /\ BeganOnConfirmed(r1) /\ BeganOnConfirmed(r2)
      /\ Answered(r1) /\ Answered(r2) /\ NoStorageError )
    => \/ Succeeded(r1) /\ NotCancellable(r2)
       \/ Succeeded(r2) /\ NotCancellable(r1)

\* The step is a command of a request of the given kind addressed to
\* booking id.
StepOf(kind, id) ==
  \E r \in Reqs : Runs(r) /\ IsKind(r, kind) /\ reqs[r].id = id

\* C26: booking status only moves forward, as every reader of the stored
\* rows sees it (no storage error anywhere): a row that appears is
\* confirmed, a confirmed row becomes cancelled only in a step of a Cancel
\* addressed to it, a cancelled row never becomes confirmed again, and a
\* row disappears only in a step of a Delete addressed to it.
C26_StatusMovesForward ==
  [][ NoStorageError'
      => /\ \A x \in bookings' :
              getBooking(bookings, x.id) = {} => Confirmed(x)
         /\ \A b \in bookings :
              /\ \A x \in getBooking(bookings', b.id) :
                    /\ ( Confirmed(b) /\ ~Confirmed(x) )
                       => StepOf("cancel", b.id)
                    /\ ~Confirmed(b) => ~Confirmed(x)
              /\ getBooking(bookings', b.id) = {}
                 => StepOf("delete", b.id)
    ]_vars

\* A db.rollback() of request r is waiting on the connection.
RollbackQueued(r) ==
  \E i \in 1..Len(queue) : queue[i] = [req |-> r, cmd |-> "rollback"]

\* C27: on a connection that invokes every callback, every Reserve, Cancel
\* and Delete request is answered, and answered once, and its transaction
\* is ended: the connection runs out of commands again and again, and when
\* it has none every request that arrived is answered and no db.rollback()
\* is waiting; a response, once sent, is never replaced; the step that
\* answers a request whose beginTransaction succeeded is its successful
\* commit or calls db.rollback().
C27_AnsweredOnceTxnEnded ==
  /\ []<>(queue = <<>>)
  /\ [](queue = <<>> => \A r \in Arrived : Answered(r))
  /\ [][ \A r \in Reqs :
           /\ Answered(r) => reqs'[r].res = reqs[r].res
           /\ ( ~Answered(r) /\ Answered(r)' )
              => \/ reqs'[r].failedAt = "begin"
                 \/ Succeeded(r)' /\ AtHead(r, reqs[r].kind, "commit")
                 \/ ~Succeeded(r)' /\ RollbackQueued(r)'
       ]_vars

\* Both requests are answered, one with success and one after a failure
\* behind its beginTransaction, and the rollback it called has run.
C27_Witness ==
  \E r1 \in Reqs : \E r2 \in Reqs :
    /\ Succeeded(r1)
    /\ Answered(r2) /\ ~Succeeded(r2)
    /\ reqs[r2].failedAt \notin {"none", "begin"}
    /\ Concurrent(r1, r2)
    /\ queue = <<>>

\* The booking ids and the seat triples that a step of request r may
\* touch: the booking it creates or addresses, and that booking's seat.
OwnIds(r) ==
  IF IsKind(r, "reserve") THEN {reqs[r].insertId, reqs'[r].insertId}
  ELSE {reqs[r].id}

OwnTriples(r) ==
  IF IsKind(r, "reserve") THEN {BodyTriple(reqs[r].body)}
  ELSE { Triple(b) : b \in getBooking(bookings, reqs[r].id)
                             \cup reqs[r].results }

\* C28: a step of a Reserve, a Cancel or a Delete, whether the request
\* succeeds or fails, leaves every booking other than the one it creates or
\* addresses, and every seat of another triple, as they were.
C28_OnlyOwnBookingAndSeat ==
  [][ \A r \in Reqs :
        ( Runs(r) /\ reqs[r].kind \in {"reserve", "cancel", "delete"} )
        => /\ { b \in bookings : b.id \notin OwnIds(r) }
              = { b \in bookings' : b.id \notin OwnIds(r) }
           /\ { x \in seats : Triple(x) \notin OwnTriples(r) }
              = { x \in seats' : Triple(x) \notin OwnTriples(r) }
    ]_vars

\* The step sends a POST /api/bookings as request r.
PostSent(r) ==
  /\ r \notin Reserved
  /\ \E o \in page'.outbox : o.req = r /\ o.kind = "reserve"

\* The body of the request that the step sends as number r.
SentBody(r) == (CHOOSE o \in page'.outbox : o.req = r).body

\* The step ends the page's wait for the answer to its POST r.
PostSettled(r) ==
  Awaits(r, "confirmBooking") /\ [req |-> r, by |-> "confirmBooking"]
                                   \notin page'.fetches

\* What the form must hold for a booking to be sent.
FilledIn(s) == \E k \in 1..Len(s) : s[k] \notin WhiteSpace

LocalAtDomainTld(s) ==
  \E i \in 2..Len(s) : \E j \in (i + 2)..(Len(s) - 1) :
    /\ s[i] = Code("@") /\ s[j] = Code(".")
    /\ \A k \in 1..Len(s) : s[k] \notin WhiteSpace
    /\ \A k \in 1..Len(s) : s[k] = Code("@") => k = i

TenToFifteenDigits(s) ==
  /\ \A k \in 1..Len(s) :
       s[k] \in Digits \cup WhiteSpace \cup {Code("-"), Code("("), Code(")")}
  /\ Cardinality({ k \in 1..Len(s) : s[k] \in Digits }) \in 10..15

\* C29: a step that sends a POST /api/bookings from the page finds name,
\* email and phone filled in, a seat selected, the trimmed email of the form
\* local@domain.tld and the phone of 10 to 15 digits once spaces, hyphens
\* and parentheses are taken out, and sends that seat; selectedSeat becomes
\* null only in the step that receives a success response, and the step
\* that receives a rejection or a failure leaves it as it is.
C29_ValidatedSendAndReset ==
  [][ /\ \A r \in Reqs :
           PostSent(r)
           => /\ FilledIn(page.userName) /\ FilledIn(page.userEmail)
              /\ FilledIn(page.userPhone)
              /\ page.selectedSeat # null
              /\ LocalAtDomainTld(trim(page.userEmail))
              /\ TenToFifteenDigits(trim(page.userPhone))
              /\ SentBody(r).seatNumber = page.selectedSeat
      /\ ( page.selectedSeat # null /\ page'.selectedSeat = null )
         => \E r \in Reqs : PostSettled(r) /\ Succeeded(r)
      /\ \A r \in Reqs :
           ( PostSettled(r) /\ ~Succeeded(r) )
           => page'.selectedSeat = page.selectedSeat
    ]_vars

\* A booking sent from the page was answered with success, the page has
\* taken the answer and selectedSeat is null again.
C29_Witness ==
  \E r \in Reqs :
    /\ IsKind(r, "reserve") /\ Succeeded(r)
    /\ ~Awaits(r, "confirmBooking")
    /\ reqs[r].body.userName = "Sita"
    /\ page.selectedSeat = null
    /\ \E r2 \in Reqs : IsKind(r2, "seats")

\* C30: the seat that a POST /api/bookings from the page submits was
\* selected, by selectSeat, while currentMovie and currentShowTime had the
\* values submitted with it.
C30_SeatSelectedForSubmittedShow ==
  [][ \A r \in Reqs :
        PostSent(r)
        => /\ SentBody(r).movieName = page.chosenMovie
           /\ SentBody(r).showTime = page.chosenShowTime
    ]_vars

====
